---- MODULE Spec2Model ----
(***************************************************************************)
(* iosocks: the connection control block (conn_t) of the client isocks and *)
(* of the server osocks, driven by the libev callbacks of src/isocks.c.    *)
(* One CCB is followed from accept to destruction; the sockets, the        *)
(* allocator and the resolver are the environment and answer               *)
(* nondeterministically.                                                   *)
(***************************************************************************)
EXTENDS Integers, Sequences, FiniteSets, TLC

VARIABLES
    role,   \* which binary runs: "client" (isocks) or "server" (osocks)
    conn,   \* the fields of conn_t
    ev,     \* the event loop: which watchers of the CCB are active
    fds,    \* the kernel's view of sock_local and sock_remote
    mem,    \* the fixed-block allocator: the conn_t, gai_t and ev_timer blocks
    dns,    \* the asynchronous resolver (osocks)
    net,    \* bytes moved so far (what the peers have seen)
    hist    \* what happened to the CCB (which handler ended it, which error)

vars == <<role, conn, ev, fds, mem, dns, net, hist>>

----------------------------------------------------------------------------
(* Bounds of the model *)

MaxGreet == 3       \* longest SOCKS5 greeting the application sends
MaxRecv == 2        \* most bytes one relay recv returns
MaxStream == 2      \* bytes each relay source delivers before it goes quiet
MaxCand == 2        \* most addresses a resolution returns
NumServers == 1     \* conf.server_num

(* Program constants *)

BUF_SIZE == 8192
MAGIC == <<82, 111, 110, 97>>       \* 0x526f6e61 in network byte order
REQ_LEN == 512
ENC_LEN == 276
IV_LEN == 236
HOST_OFF == 4
PORT_OFF == 261
REP_LEN == 4
KEY_MAX == 256

----------------------------------------------------------------------------
(* Byte strings *)

Min(a, b) == IF a < b THEN a ELSE b

Zeros(n) == [i \in 1..n |-> 0] \o <<>>

\* buf[i] of a zero-filled buffer (bzero) into which the bytes of s were received
At(s, i) == IF i + 1 <= Len(s) THEN s[i + 1] ELSE 0

Take(s, n) == SubSeq(s, 1, Min(n, Len(s)))

IsPrefix(s, t) == Len(s) <= Len(t) /\ SubSeq(t, 1, Len(s)) = s

RECURSIVE SeqsUpTo(_, _)
SeqsUpTo(S, n) ==
    IF n = 0 THEN {<<>>}
    ELSE LET shorter == SeqsUpTo(S, n - 1)
         IN  shorter \cup {Append(s, b) : s \in shorter, b \in S}

Sockets == {"local", "remote"}

----------------------------------------------------------------------------
(* md5.h and encrypt.h: the digest and the stream cipher are used through  *)
(* md5(data, len, out), enc_init, io_encrypt and io_decrypt.  A digest is  *)
(* 16 bytes that depend on every input byte and its place; the cipher adds *)
(* a keystream byte per position, with one position for the encrypting and *)
(* one for the decrypting direction.                                       *)

\* the weighted byte sum of data[lo..hi], halving the range
RECURSIVE Mix(_, _, _, _)
Mix(data, lo, hi, j) ==
    IF lo > hi THEN 0
    ELSE IF lo = hi THEN ((lo + j) * data[lo]) % 256
    ELSE LET mid == (lo + hi) \div 2
         IN  (Mix(data, lo, mid, j) + Mix(data, mid + 1, hi, j)) % 256

\* a byte string as a tuple whose bytes are computed once
Bytes(f) == CHOOSE t \in {f \o <<>>} : TRUE

Digest(d) == [j \in 1..16 |-> (Mix(d, 1, Len(d), j) + 7 * j + Len(d)) % 256]

md5(data) == CHOOSE out \in {Bytes(Digest(d)) : d \in {Bytes(data)}} : TRUE

Keystream(key, pos) == (key[(pos % Len(key)) + 1] + 13 * pos + 1) % 256

enc_init(key) == [key |-> key, enc |-> 0, dec |-> 0]

\* the n bytes of buf after io_encrypt(buf, n, st)
io_encrypt(buf, st) ==
    Bytes([i \in 1..Len(buf) |-> (buf[i] + Keystream(st.key, st.enc + i - 1)) % 256])

\* the n bytes of buf after io_decrypt(buf, n, st)
io_decrypt(buf, st) ==
    Bytes([i \in 1..Len(buf) |-> (buf[i] + 256 - Keystream(st.key, st.dec + i - 1)) % 256])

AfterEncrypt(st, n) == [st EXCEPT !.enc = @ + n]
AfterDecrypt(st, n) == [st EXCEPT !.dec = @ + n]

\* servers[i].key_len: strlen of the key, 256 at most
key_len(psk) == Min(Len(psk), KEY_MAX)

\* isocks: key[0..64) is MD5(R || P), then three digests of the growing prefix
DeriveKey(iv, psk) ==
    CHOOSE key \in
        UNION {UNION {UNION {{k1 \o k2 \o k3 \o md5(k1 \o k2 \o k3)} :
                                k3 \in {md5(k1 \o k2)}} :
                         k2 \in {md5(k1)}} :
                  k1 \in {md5(iv \o SubSeq(psk, 1, key_len(psk)))}} : TRUE

\* a chain whose third digest hashes the second digest alone
DeriveKeyServer_chain(iv, psk) ==
    CHOOSE key \in
        UNION {UNION {UNION {{k1 \o k2 \o k3 \o md5(k1 \o k2 \o k3)} :
                                k3 \in {md5(k2)}} :
                         k2 \in {md5(k1)}} :
                  k1 \in {md5(iv \o SubSeq(psk, 1, key_len(psk)))}} : TRUE

\* osocks: the same key from the IV of the frame and the listener's key
DeriveKeyServer(iv, psk) ==
    CHOOSE key \in
        UNION {UNION {UNION {{k1 \o k2 \o k3 \o md5(k1 \o k2 \o k3)} :
                                k3 \in {md5(k1 \o k2)}} :
                         k2 \in {md5(k1)}} :
                  k1 \in {md5(iv \o SubSeq(psk, 1, key_len(psk)))}} : TRUE

\* servers[i].key
PSK(i) == <<107, 49 + i>>

\* what rand_bytes(buf, 236) can store: 236 bytes, here all equal
RandBytes == {3, 200}
IV(r) == Bytes([i \in 1..IV_LEN |-> r])

\* a C string: the bytes before the first NUL
CStr(s) ==
    LET nul == {i \in 1..Len(s) : s[i] = 0}
    IN  IF nul = {} THEN s
        ELSE SubSeq(s, 1, (CHOOSE i \in nul : \A j \in nul : i <= j) - 1)

\* strcpy of a string into a zeroed field of the given width
Field(str, width) == CStr(str) \o Zeros(width - Len(CStr(str)))

\* the 512 bytes of tx_buf before io_encrypt: MAGIC, HOST, PORT, IV
RequestFrame(host, port, iv) ==
    MAGIC \o Field(host, PORT_OFF - HOST_OFF) \o Field(port, ENC_LEN - PORT_OFF) \o iv

----------------------------------------------------------------------------
(* SOCKS5 parsing and formatting (isocks local_read_cb) *)

\* for (i = 0; i < nmethods; i++) if (rx_buf[2 + i] == 0x00) break;
RECURSIVE ScanMethods(_, _, _)
ScanMethods(buf, i, nmethods) ==
    IF i >= nmethods THEN i
    ELSE IF At(buf, 2 + i) = 0 THEN i
    ELSE ScanMethods(buf, i + 1, nmethods)

\* the value of `error` after the checks of a greeting
NegoError(buf) ==
    LET e1 == IF At(buf, 0) # 5 THEN 1 ELSE 0
        nmethods == At(buf, 1)
    IN  IF ScanMethods(buf, 0, nmethods) >= nmethods THEN 2 ELSE e1

\* a negotiation reply that selects method 00 whatever the error
NegoReply_accept(error) == <<5, 0>>

NegoReply(error) == IF error # 0 THEN <<5, 255>> ELSE <<5, 0>>

\* the checks of a request with the CMD check moved last
CmdError_cmdlast(buf) ==
    LET e1 == IF At(buf, 0) # 5 THEN 1 ELSE 0
        e3 == IF At(buf, 3) \in {1, 3, 4} THEN e1 ELSE 3
    IN  IF At(buf, 1) # 1 THEN 2 ELSE e3

\* the value of `error` after the checks of a request: a later check overwrites
CmdError(buf) ==
    LET e1 == IF At(buf, 0) # 5 THEN 1 ELSE 0
        e2 == IF At(buf, 1) # 1 THEN 2 ELSE e1
    IN  IF At(buf, 3) \in {1, 3, 4} THEN e2 ELSE 3

\* a reply whose REP byte is left as bzero made it
SocksReply_norep(rep) == <<5, 0, 0, 1, 0, 0, 0, 0, 0, 0>>

\* bzero(tx_buf, 10); tx_buf[0] = 5; tx_buf[1] = rep; tx_buf[3] = 1
SocksReply(rep) == <<5, rep, 0, 1, 0, 0, 0, 0, 0, 0>>

CmdRep(error) == IF error = 2 THEN 7 ELSE IF error = 3 THEN 8 ELSE 1

\* sprintf("%u")
RECURSIVE DecStr(_)
DecStr(n) == IF n < 10 THEN <<48 + n>> ELSE Append(DecStr(n \div 10), 48 + (n % 10))

\* sprintf("%x")
HexDigit(d) == IF d < 10 THEN 48 + d ELSE 87 + d
RECURSIVE HexStr(_)
HexStr(n) == IF n < 16 THEN <<HexDigit(n)>> ELSE Append(HexStr(n \div 16), HexDigit(n % 16))

\* inet_ntop(AF_INET, buf + off)
inet_ntop4(buf, off) ==
    DecStr(At(buf, off)) \o <<46>> \o DecStr(At(buf, off + 1)) \o <<46>>
        \o DecStr(At(buf, off + 2)) \o <<46>> \o DecStr(At(buf, off + 3))

\* inet_ntop(AF_INET6, buf + off): the longest run of zero words becomes "::"
Word6(buf, off, k) == At(buf, off + 2 * k) * 256 + At(buf, off + 2 * k + 1)

RECURSIVE ZeroRun(_, _, _)
ZeroRun(buf, off, k) ==
    IF k > 7 \/ Word6(buf, off, k) # 0 THEN 0 ELSE 1 + ZeroRun(buf, off, k + 1)

BestRun(buf, off) ==
    LET runs == {k \in 0..7 : ZeroRun(buf, off, k) >= 2}
    IN  IF runs = {} THEN [base |-> -1, len |-> 0]
        ELSE LET b == CHOOSE k \in runs :
                        \A j \in runs :
                            \/ ZeroRun(buf, off, k) > ZeroRun(buf, off, j)
                            \/ ZeroRun(buf, off, k) = ZeroRun(buf, off, j) /\ k <= j
             IN  [base |-> b, len |-> ZeroRun(buf, off, b)]

RECURSIVE Ntop6From(_, _, _, _)
Ntop6From(buf, off, best, i) ==
    IF i > 7 THEN IF best.base # -1 /\ best.base + best.len = 8 THEN <<58>> ELSE <<>>
    ELSE IF best.base # -1 /\ i >= best.base /\ i < best.base + best.len
         THEN (IF i = best.base THEN <<58>> ELSE <<>>) \o Ntop6From(buf, off, best, i + 1)
    ELSE LET colon == IF i # 0 THEN <<58>> ELSE <<>>
         IN  IF /\ i = 6 /\ best.base = 0
                /\ (best.len = 6 \/ (best.len = 5 /\ Word6(buf, off, 5) = 65535))
             THEN colon \o inet_ntop4(buf, off + 12)
             ELSE colon \o HexStr(Word6(buf, off, i)) \o Ntop6From(buf, off, best, i + 1)

inet_ntop6(buf, off) == Ntop6From(buf, off, BestRun(buf, off), 0)

ntohs(buf, off) == At(buf, off) * 256 + At(buf, off + 1)

\* host[] and port[] of a request whose ATYP is 1, 3 or 4
ReqHost(buf) ==
    IF At(buf, 3) = 1 THEN inet_ntop4(buf, 4)
    ELSE IF At(buf, 3) = 3 THEN [i \in 1..At(buf, 4) |-> At(buf, 4 + i)]
    ELSE inet_ntop6(buf, 4)

ReqPort(buf) ==
    IF At(buf, 3) = 1 THEN DecStr(ntohs(buf, 8))
    ELSE IF At(buf, 3) = 3 THEN DecStr(ntohs(buf, At(buf, 4) + 5))
    ELSE DecStr(ntohs(buf, 20))

----------------------------------------------------------------------------
(* The environment: what the sockets, the allocator and the peers can do *)

\* greetings an application can send in one segment
GreetBytes == {0, 1, 2, 5}
Greetings == SeqsUpTo(GreetBytes, MaxGreet) \ {<<>>}

\* SOCKS5 requests: VER, CMD, RSV, ATYP, DST.ADDR, DST.PORT, and truncated ones
Port80 == <<0, 80>>
AddrOf(atyp) ==
    IF atyp = 1 THEN {<<1, 2, 3, 4>>}
    ELSE IF atyp = 3 THEN {<<1, 97>>, <<0>>}
    ELSE IF atyp = 4 THEN {Zeros(15) \o <<1>>}
    ELSE {<<9, 9>>}
Requests ==
    UNION {{<<t[1], t[2], 0, t[3]>> \o a \o Port80 : a \in AddrOf(t[3])} :
              t \in {4, 5} \X {1, 2} \X {1, 3, 4, 9}}
    \cup {<<5, 2>>, <<5, 2, 0>>, <<5, 1, 0>>}

\* the return value of a send of len bytes during the handshake
SendResults(len) == {n \in {-1, 0, len - 1, len} : -1 <= n /\ n <= len}

\* the return value and errno of a send of len bytes during the relay
RelaySends(len) ==
    {[n |-> k, errno |-> "none"] : k \in 0..len}
    \cup {[n |-> -1, errno |-> e] : e \in {"EAGAIN", "ECONNRESET"}}

\* mem_new does not clear a block: what an unwritten ssize_t field can hold
Unset == {0, -1}

\* the payload bytes the application and the destination send during the relay
AppByte(k) == 16 + k
DestByte(k) == 32 + k

----------------------------------------------------------------------------
(* State *)

NoConn ==
    [state |-> "NONE", rx_bytes |-> 0, tx_bytes |-> 0, rx_offset |-> 0, tx_offset |-> 0,
     rx_buf |-> <<>>, tx_buf |-> <<>>, enc_evp |-> enc_init(<<0>>), server_index |-> 0]

InitCommon ==
    /\ conn = NoConn
    /\ ev = [lr |-> FALSE, lw |-> FALSE, rr |-> FALSE, rw |-> FALSE, timer |-> FALSE,
             rw_cb |-> "none", inited |-> {}, stopped_unset |-> FALSE,
             at |-> "loop"]
    /\ fds = [sock |-> [local |-> "none", remote |-> "none"],
              closes |-> [local |-> 0, remote |-> 0], stale |-> FALSE]
    /\ mem = [block |-> [conn |-> "none", gai |-> "none", timer |-> "none"],
              frees |-> [conn |-> 0, gai |-> 0, timer |-> 0]]
    /\ dns = [req |-> "idle", left |-> 0, host |-> <<>>, port |-> <<>>,
              n |-> 0, dialed |-> <<>>, failed |-> 0]
    /\ net = [to_local |-> <<>>, to_remote |-> <<>>,
              tx_in |-> <<>>, tx_out |-> <<>>, rx_in |-> <<>>, rx_out |-> <<>>]
    /\ hist = [end |-> "none", cause |-> "none", by |-> "none", perr |-> "none",
               inner |-> "none", dialed |-> FALSE, enc_inits |-> 0,
               req_ver |-> -1, req_cmd |-> -1, req_atyp |-> -1, first_len |-> -2, first_key |-> -1,
               so_error |-> -1, host |-> <<>>, port |-> <<>>,
               psk |-> <<>>, key |-> <<>>]

InitClient == role = "client" /\ InitCommon
InitServer == role = "server" /\ InitCommon
Init == InitClient \/ InitServer

\* close(fd)
Closed(f, s) ==
    [f EXCEPT !.sock[s] = "closed", !.closes[s] = @ + 1,
              !.stale = @ \/ f.sock[s] # "open"]

\* mem_delete(block)
Deleted(m, b) == [m EXCEPT !.block[b] = "freed", !.frees[b] = @ + 1]

\* close(conn->sock_local); mem_delete(conn); return;
CloseFreeH(h) ==
    /\ fds' = Closed(fds, "local")
    /\ mem' = Deleted(mem, "conn")
    /\ hist' = h

CloseFree(cause, by) ==
    CloseFreeH([hist EXCEPT !.end = "close_free", !.cause = cause, !.by = by])

\* a cleanup without the ev_io_stop of w_remote_write
StopAll_three(e) ==
    [e EXCEPT !.lr = FALSE, !.lw = FALSE, !.rr = FALSE,
              !.stopped_unset = @ \/ ({"lr", "lw", "rr"} \ e.inited # {})]

\* a cleanup that stops only the two watchers of the local socket
StopAll_local(e) ==
    [e EXCEPT !.lr = FALSE, !.lw = FALSE,
              !.stopped_unset = @ \/ ({"lr", "lw"} \ e.inited # {})]

\* the four ev_io_stop of cleanup
StopAll(e) ==
    [e EXCEPT !.lr = FALSE, !.lw = FALSE, !.rr = FALSE, !.rw = FALSE,
              !.stopped_unset = @ \/ ({"lr", "lw", "rr", "rw"} \ e.inited # {})]

\* cleanup(conn) once the handler's own ev_io_stop, if any, gave the watchers e
cleanup(e, h) ==
    /\ ev' = StopAll(e)
    /\ fds' = Closed(Closed(fds, "local"), "remote")
    /\ mem' = Deleted(mem, "conn")
    /\ hist' = h

Ended(cause, by) == [hist EXCEPT !.end = "cleanup", !.cause = cause, !.by = by]

RecvCause(r) == IF r = 0 THEN "eof" ELSE "recv_err"
SendCause(n) == IF n < 0 THEN "send_err" ELSE "short"

\* what a send that returned n put on the wire
Wire(log, buf, n) == IF n > 0 THEN Append(log, Take(buf, n)) ELSE log

Live == mem.block.conn = "live"

\* the thread of ev_run is between two callbacks, not inside one
InLoop == ev.at = "loop"

----------------------------------------------------------------------------
(* isocks: the client *)

isocks_accept_cb ==
    /\ role = "client"
    /\ mem.block.conn = "none"
    /\ \E g \in Unset :
        /\ conn' = [NoConn EXCEPT !.state = "CLOSED", !.rx_bytes = g, !.tx_bytes = g,
                                  !.rx_offset = g, !.tx_offset = g]
        /\ mem' = [mem EXCEPT !.block.conn = "live"]
        /\ fds' = [fds EXCEPT !.sock.local = "open"]
        /\ ev' = [ev EXCEPT !.lr = TRUE, !.inited = {"lr", "lw"}]
        /\ UNCHANGED <<role, dns, net, hist>>

\* the ssize_t a handshake recv returns when it delivers no message
RecvFails == {0, -1}

isocks_local_read_cb_CLOSED ==
    /\ role = "client" /\ Live /\ ev.lr /\ conn.state = "CLOSED"
    /\ \/ \E r \in RecvFails :
            /\ ev' = [ev EXCEPT !.lr = FALSE]
            /\ CloseFree(RecvCause(r), "local_read_cb")
            /\ UNCHANGED <<role, conn, dns, net>>
       \/ \E msg \in Greetings :
            LET error == NegoError(msg) IN
            /\ conn' = [conn EXCEPT !.rx_buf = msg, !.tx_buf = NegoReply(error),
                                    !.tx_bytes = 2,
                                    !.state = IF error # 0 THEN "NEGO_ERR" ELSE "NEGO_RCVD"]
            /\ ev' = [ev EXCEPT !.lr = FALSE, !.lw = TRUE]
            /\ hist' = [hist EXCEPT !.perr = IF error # 0 THEN "greeting" ELSE @]
            /\ UNCHANGED <<role, fds, mem, dns, net>>

\* ev_timer *w_timer = mem_new(...); the linger timer of CLOSE_WAIT
StartCloseWait(by) ==
    \/ /\ mem' = [mem EXCEPT !.block.timer = "live"]
       /\ ev' = [ev EXCEPT !.lw = FALSE, !.timer = TRUE]
       /\ UNCHANGED <<fds, hist>>
    \/ /\ ev' = [ev EXCEPT !.lw = FALSE]
       /\ CloseFree("alloc", by)

\* the state after the negotiation reply went out in full
AfterNegoSent(state) == IF state = "NEGO_RCVD" THEN "NEGO_SENT" ELSE "CLOSE_WAIT"

isocks_local_write_cb_NEGO ==
    /\ role = "client" /\ Live /\ ev.lw /\ conn.state \in {"NEGO_RCVD", "NEGO_ERR"}
    /\ \E n \in SendResults(conn.tx_bytes) :
        /\ net' = [net EXCEPT !.to_local = Wire(@, conn.tx_buf, n)]
        /\ IF n # conn.tx_bytes
           THEN /\ ev' = [ev EXCEPT !.lw = FALSE]
                /\ CloseFree(SendCause(n), "local_write_cb")
                /\ UNCHANGED <<role, conn, dns>>
           ELSE IF AfterNegoSent(conn.state) = "NEGO_SENT"
           THEN /\ conn' = [conn EXCEPT !.state = "NEGO_SENT"]
                /\ ev' = [ev EXCEPT !.lw = FALSE, !.lr = TRUE]
                /\ UNCHANGED <<role, fds, mem, dns, hist>>
           ELSE /\ conn' = [conn EXCEPT !.state = "CLOSE_WAIT"]
                /\ StartCloseWait("local_write_cb")
                /\ UNCHANGED <<role, dns>>

isocks_local_read_cb_NEGO_SENT ==
    /\ role = "client" /\ Live /\ ev.lr /\ conn.state = "NEGO_SENT"
    /\ \/ \E r \in RecvFails :
            /\ ev' = [ev EXCEPT !.lr = FALSE]
            /\ CloseFree(RecvCause(r), "local_read_cb")
            /\ UNCHANGED <<role, conn, dns, net>>
       \/ \E msg \in Requests :
            /\ CmdError(msg) # 0
            /\ conn' = [conn EXCEPT !.rx_buf = msg,
                                    !.tx_buf = SocksReply(CmdRep(CmdError(msg))),
                                    !.tx_bytes = 10, !.state = "CMD_ERR"]
            /\ ev' = [ev EXCEPT !.lr = FALSE, !.lw = TRUE]
            /\ hist' = [hist EXCEPT !.perr = "request", !.req_ver = At(msg, 0),
                                    !.req_cmd = At(msg, 1), !.req_atyp = At(msg, 3)]
            /\ UNCHANGED <<role, fds, mem, dns, net>>
       \/ \E index \in 0..(NumServers - 1), r \in RandBytes :
          \E st \in {enc_init(DeriveKey(IV(r), PSK(index)))} :
          \E msg \in {m \in Requests : CmdError(m) = 0} :
          \E frame \in {RequestFrame(ReqHost(msg), ReqPort(msg), IV(r))} :
          \E built \in {[conn EXCEPT !.rx_buf = IV(r) \o PSK(index),
                                     !.enc_evp = AfterEncrypt(st, ENC_LEN),
                                     !.tx_buf = io_encrypt(SubSeq(frame, 1, ENC_LEN), st)
                                                   \o IV(r),
                                     !.tx_bytes = REQ_LEN]} :
          \E seen \in {[hist EXCEPT !.enc_inits = @ + 1, !.req_ver = At(msg, 0),
                                    !.req_cmd = At(msg, 1), !.req_atyp = At(msg, 3)]} :
          \E sock \in {-1, 3} :
            /\ IF sock < 0
               THEN /\ conn' = built
                    /\ ev' = [ev EXCEPT !.lr = FALSE]
                    /\ CloseFreeH([seen EXCEPT !.end = "close_free", !.cause = "socket",
                                                !.by = "local_read_cb"])
               ELSE /\ conn' = [built EXCEPT !.state = "CMD_RCVD"]
                    /\ ev' = [ev EXCEPT !.lr = FALSE, !.rw = TRUE, !.rw_cb = "connect_cb",
                                        !.inited = @ \cup {"rw"}]
                    /\ fds' = [fds EXCEPT !.sock.remote = "open"]
                    /\ hist' = [seen EXCEPT !.dialed = TRUE]
                    /\ UNCHANGED mem
            /\ UNCHANGED <<role, dns, net>>

\* getsockopt(SO_ERROR): 0, or the errno of the failed connect
SoErrors == {0, 111}

isocks_connect_cb ==
    /\ role = "client" /\ Live /\ ev.rw /\ ev.rw_cb = "connect_cb"
    /\ \E error \in SoErrors :
        IF error = 0
        THEN /\ conn' = [conn EXCEPT !.state = "CONNECTED"]
             /\ ev' = [ev EXCEPT !.rw = TRUE, !.rw_cb = "remote_write_cb"]
             /\ UNCHANGED <<role, fds, mem, dns, net, hist>>
        ELSE /\ conn' = [conn EXCEPT !.tx_buf = SocksReply(5), !.tx_bytes = 10,
                                     !.state = "REQ_ERR"]
             /\ fds' = Closed(fds, "remote")
             /\ ev' = [ev EXCEPT !.rw = FALSE, !.lw = TRUE]
             /\ hist' = [hist EXCEPT !.inner = "connect"]
             /\ UNCHANGED <<role, mem, dns, net>>

isocks_remote_write_cb_CONNECTED ==
    /\ role = "client" /\ Live /\ ev.rw /\ ev.rw_cb = "remote_write_cb"
    /\ conn.state = "CONNECTED"
    /\ \E n \in SendResults(conn.tx_bytes) :
        /\ net' = [net EXCEPT !.to_remote = Wire(@, conn.tx_buf, n)]
        /\ IF n # conn.tx_bytes
           THEN /\ cleanup([ev EXCEPT !.rw = FALSE],
                           [Ended(SendCause(n), "remote_write_cb") EXCEPT !.inner = "send"])
                /\ UNCHANGED <<role, conn, dns>>
           ELSE /\ conn' = [conn EXCEPT !.state = "REQ_SENT"]
                /\ ev' = [ev EXCEPT !.rw = FALSE, !.rr = TRUE, !.inited = @ \cup {"rr"}]
                /\ UNCHANGED <<role, fds, mem, dns, hist>>

\* what the upstream server answers: its reply frame under the connection's
\* key, or bytes that are no reply frame
ReplyFrames(key) ==
    {io_encrypt(plain, enc_init(key)) : plain \in {MAGIC, Zeros(REP_LEN)}}
BadReplies(key) ==
    {SubSeq(io_encrypt(MAGIC, enc_init(key)), 1, REP_LEN - 1),
     io_encrypt(MAGIC, enc_init(key)) \o <<0>>}

isocks_remote_read_cb_REQ_SENT ==
    /\ role = "client" /\ Live /\ ev.rr /\ conn.state = "REQ_SENT"
    /\ \/ \E r \in RecvFails :
            /\ cleanup([ev EXCEPT !.rr = FALSE],
                       [Ended(RecvCause(r), "remote_read_cb") EXCEPT !.inner = "read"])
            /\ UNCHANGED <<role, conn, dns, net>>
       \/ \E msg \in BadReplies(conn.enc_evp.key) :
            /\ conn' = [conn EXCEPT !.rx_buf = msg]
            /\ cleanup([ev EXCEPT !.rr = FALSE],
                       [Ended("short", "remote_read_cb") EXCEPT !.inner = "read"])
            /\ UNCHANGED <<role, dns, net>>
       \/ \E msg \in ReplyFrames(conn.enc_evp.key) :
            LET plain == io_decrypt(msg, conn.enc_evp)
                ok == plain = MAGIC
            IN
            /\ conn' = [conn EXCEPT !.rx_buf = plain,
                                    !.enc_evp = AfterDecrypt(@, REP_LEN),
                                    !.tx_buf = SocksReply(IF ok THEN 0 ELSE 5),
                                    !.tx_bytes = 10,
                                    !.state = IF ok THEN "REP_RCVD" ELSE "REQ_ERR"]
            /\ ev' = [ev EXCEPT !.rr = FALSE, !.lw = TRUE]
            /\ hist' = [hist EXCEPT !.inner = IF ok THEN @ ELSE "magic",
                                    !.perr = IF ok THEN @ ELSE "reply_magic"]
            /\ UNCHANGED <<role, fds, mem, dns, net>>

\* a reply handler that goes on to the relay without looking at the state
AfterReplySent_relay(state) == "ESTAB"

\* the state after the SOCKS5 reply went out in full
AfterReplySent(state) == IF state = "REP_RCVD" THEN "ESTAB" ELSE "CLOSE_WAIT"

isocks_local_write_cb_REPLY ==
    /\ role = "client" /\ Live /\ ev.lw /\ conn.state \in {"CMD_ERR", "REQ_ERR", "REP_RCVD"}
    /\ \E n \in SendResults(conn.tx_bytes) :
        /\ net' = [net EXCEPT !.to_local = Wire(@, conn.tx_buf, n)]
        /\ IF n # conn.tx_bytes
           THEN /\ ev' = [ev EXCEPT !.lw = FALSE]
                /\ CloseFree(SendCause(n), "local_write_cb")
                /\ UNCHANGED <<role, conn, dns>>
           ELSE IF AfterReplySent(conn.state) = "ESTAB"
           THEN /\ conn' = [conn EXCEPT !.state = "ESTAB"]
                /\ ev' = [ev EXCEPT !.lw = FALSE, !.lr = TRUE, !.rr = TRUE]
                /\ UNCHANGED <<role, fds, mem, dns, hist>>
           ELSE /\ conn' = [conn EXCEPT !.state = "CLOSE_WAIT"]
                /\ StartCloseWait("local_write_cb")
                /\ UNCHANGED <<role, dns>>

isocks_closewait_cb ==
    /\ role = "client" /\ Live /\ ev.timer
    /\ ev' = [ev EXCEPT !.timer = FALSE]
    /\ fds' = Closed(fds, "local")
    /\ mem' = Deleted(Deleted(mem, "timer"), "conn")
    /\ hist' = [hist EXCEPT !.end = "closewait", !.cause = "timer", !.by = "closewait_cb"]
    /\ UNCHANGED <<role, conn, dns, net>>

----------------------------------------------------------------------------
(* The relay of ESTAB: the outcome of a send decides offset, bytes and      *)
(* which watcher runs next.  isocks and osocks share the arithmetic.        *)

Fatal(r) == r.n < 0 /\ r.errno # "EAGAIN"

\* a read handler that leaves the offset as it was after a partial send
ReadOffset_old(old, bytes, r) == old

\* after the send of a read handler, which had `bytes` bytes to send
ReadOffset(old, bytes, r) == IF r.n < 0 THEN 0 ELSE IF r.n < bytes THEN r.n ELSE old
ReadBytes(bytes, r) == IF r.n >= 0 /\ r.n < bytes THEN bytes - r.n ELSE bytes
\* the read handler returns early on a full send, else swaps reader for writer
ReadBlocks(bytes, r) == r.n < bytes

\* a write handler that does not advance the offset after a partial send
WriteOffset_stuck(offset, bytes, r) == offset

\* a write handler that keeps the count of the bytes sent, not of those left
WriteBytes_sent(bytes, r) == IF r.n >= 0 /\ r.n < bytes THEN r.n ELSE bytes

\* after the send of a write handler
WriteOffset(offset, bytes, r) == IF r.n >= 0 /\ r.n < bytes THEN offset + r.n ELSE offset
WriteBytes(bytes, r) == IF r.n >= 0 /\ r.n < bytes THEN bytes - r.n ELSE bytes
\* the write handler swaps writer for reader once everything is sent
Drained(bytes, r) == r.n >= bytes

\* a read handler that starts the writer and forgets its own ev_io_stop(w)
StartWriter_nostop(e, reader, writer) == [e EXCEPT ![writer] = TRUE]

\* ev_io_start(writer); ev_io_stop(w): the read handler hands over to the writer
StartWriter(e, reader, writer) == [e EXCEPT ![writer] = TRUE, ![reader] = FALSE]

\* a write handler that stops itself and forgets to start the reader
StartReader_stalled(e, reader, writer) == [e EXCEPT ![writer] = FALSE]

\* ev_io_start(reader); ev_io_stop(w): the write handler hands back to the reader
StartReader(e, reader, writer) == [e EXCEPT ![reader] = TRUE, ![writer] = FALSE]

\* send(buf + offset, bytes) returned n: the bytes the socket took
Sent(buf, offset, n) == IF n > 0 THEN SubSeq(buf, offset + 1, offset + n) ELSE <<>>

\* the next k bytes of a source that has delivered `sofar`
Next_(byte(_), sofar, k) == [i \in 1..k |-> byte(Len(sofar) + i)]

isocks_local_read_cb_ESTAB ==
    /\ role = "client" /\ Live /\ ev.lr /\ conn.state = "ESTAB"
    /\ \/ \E r \in RecvFails :
            /\ conn' = [conn EXCEPT !.tx_bytes = r]
            /\ cleanup(ev, Ended(RecvCause(r), "local_read_cb"))
            /\ UNCHANGED <<role, dns, net>>
       \/ \E k \in 1..MaxRecv :
            /\ Len(net.tx_in) + k <= MaxStream
            /\ \E r \in RelaySends(k) :
                LET raw == Next_(AppByte, net.tx_in, k)
                    buf == io_encrypt(raw, conn.enc_evp)
                IN
                /\ net' = [net EXCEPT !.tx_in = @ \o raw, !.tx_out = @ \o Sent(buf, 0, r.n)]
                /\ conn' = [conn EXCEPT !.tx_buf = buf,
                                        !.enc_evp = AfterEncrypt(@, k),
                                        !.tx_bytes = IF Fatal(r) THEN k ELSE ReadBytes(k, r),
                                        !.tx_offset = IF Fatal(r) THEN @ ELSE ReadOffset(@, k, r)]
                /\ IF Fatal(r)
                   THEN cleanup(ev, Ended("send_err", "local_read_cb"))
                   ELSE /\ ev' = IF ReadBlocks(k, r)
                                 THEN StartWriter(ev, "lr", "rw") ELSE ev
                        /\ UNCHANGED <<fds, mem, hist>>
                /\ UNCHANGED <<role, dns>>

isocks_remote_write_cb_ESTAB ==
    /\ role = "client" /\ Live /\ ev.rw /\ ev.rw_cb = "remote_write_cb"
    /\ conn.state = "ESTAB"
    /\ \E r \in RelaySends(conn.tx_bytes) :
        /\ net' = [net EXCEPT !.tx_out = @ \o Sent(conn.tx_buf, conn.tx_offset, r.n)]
        /\ IF Fatal(r)
           THEN /\ cleanup(ev, Ended("send_err", "remote_write_cb"))
                /\ UNCHANGED conn
           ELSE /\ conn' = [conn EXCEPT !.tx_offset = WriteOffset(@, conn.tx_bytes, r),
                                        !.tx_bytes = WriteBytes(@, r)]
                /\ ev' = IF Drained(conn.tx_bytes, r)
                         THEN StartReader(ev, "lr", "rw") ELSE ev
                /\ UNCHANGED <<fds, mem, hist>>
        /\ UNCHANGED <<role, dns>>

isocks_remote_read_cb_ESTAB ==
    /\ role = "client" /\ Live /\ ev.rr /\ conn.state = "ESTAB"
    /\ \/ \E r \in RecvFails :
            /\ conn' = [conn EXCEPT !.rx_bytes = r]
            /\ cleanup(ev, Ended(RecvCause(r), "remote_read_cb"))
            /\ UNCHANGED <<role, dns, net>>
       \/ \E k \in 1..MaxRecv :
            /\ Len(net.rx_in) + k <= MaxStream
            /\ \E r \in RelaySends(k) :
                LET raw == Next_(DestByte, net.rx_in, k)
                    buf == io_decrypt(raw, conn.enc_evp)
                IN
                /\ net' = [net EXCEPT !.rx_in = @ \o raw, !.rx_out = @ \o Sent(buf, 0, r.n)]
                /\ conn' = [conn EXCEPT !.rx_buf = buf,
                                        !.enc_evp = AfterDecrypt(@, k),
                                        !.rx_bytes = IF Fatal(r) THEN k ELSE ReadBytes(k, r),
                                        !.rx_offset = IF Fatal(r) THEN @ ELSE ReadOffset(@, k, r)]
                /\ IF Fatal(r)
                   THEN cleanup(ev, Ended("send_err", "remote_read_cb"))
                   ELSE /\ ev' = IF ReadBlocks(k, r)
                                 THEN StartWriter(ev, "rr", "lw") ELSE ev
                        /\ UNCHANGED <<fds, mem, hist>>
                /\ UNCHANGED <<role, dns>>

isocks_local_write_cb_ESTAB ==
    /\ role = "client" /\ Live /\ ev.lw /\ conn.state = "ESTAB"
    /\ \E r \in RelaySends(conn.rx_bytes) :
        /\ net' = [net EXCEPT !.rx_out = @ \o Sent(conn.rx_buf, conn.rx_offset, r.n)]
        /\ IF Fatal(r)
           THEN /\ cleanup(ev, Ended("send_err", "local_write_cb"))
                /\ UNCHANGED conn
           ELSE /\ conn' = [conn EXCEPT !.rx_offset = WriteOffset(@, conn.rx_bytes, r),
                                        !.rx_bytes = WriteBytes(@, r)]
                /\ ev' = IF Drained(conn.rx_bytes, r)
                         THEN StartReader(ev, "rr", "lw") ELSE ev
                /\ UNCHANGED <<fds, mem, hist>>
        /\ UNCHANGED <<role, dns>>

NextClient ==
    \/ isocks_accept_cb
    \/ isocks_local_read_cb_CLOSED
    \/ isocks_local_write_cb_NEGO
    \/ isocks_local_read_cb_NEGO_SENT
    \/ isocks_connect_cb
    \/ isocks_remote_write_cb_CONNECTED
    \/ isocks_remote_read_cb_REQ_SENT
    \/ isocks_local_write_cb_REPLY
    \/ isocks_closewait_cb
    \/ isocks_local_read_cb_ESTAB
    \/ isocks_remote_write_cb_ESTAB
    \/ isocks_remote_read_cb_ESTAB
    \/ isocks_local_write_cb_ESTAB

SpecClient == InitClient /\ [][NextClient]_vars

----------------------------------------------------------------------------
(* osocks: the server *)

\* the relay bytes the client end of the tunnel sends
PeerByte(k) == 48 + k

\* the 512-byte requests a client can send: host, port, IV byte and key index,
\* where index NumServers is a key no listener has
Hosts == {<<97>>, <<49, 46, 50, 46, 51, 46, 52>>}
ClientFrame(host, port, r, index) ==
    io_encrypt(SubSeq(RequestFrame(host, port, IV(r)), 1, ENC_LEN),
               enc_init(DeriveKey(IV(r), PSK(index)))) \o IV(r)
\* what one recv delivers of a frame: one byte less, the frame, one byte more
Resized(frame, d) ==
    IF d < 0 THEN SubSeq(frame, 1, Len(frame) - 1)
    ELSE IF d > 0 THEN frame \o <<0>> ELSE frame

osocks_accept_cb ==
    /\ role = "server" /\ InLoop
    /\ mem.block.conn = "none"
    /\ \E g \in Unset, index \in 0..(NumServers - 1) :
        /\ conn' = [NoConn EXCEPT !.state = "CLOSED", !.rx_bytes = g, !.tx_bytes = g,
                                  !.rx_offset = g, !.tx_offset = g,
                                  !.server_index = index]
        /\ mem' = [mem EXCEPT !.block.conn = "live"]
        /\ fds' = [fds EXCEPT !.sock.local = "open"]
        /\ ev' = [ev EXCEPT !.lr = TRUE, !.inited = {"lr", "lw"}]
        /\ UNCHANGED <<role, dns, net, hist>>

\* a parse that ends the host one byte early
FrameHost_short(plain) == CStr(SubSeq(plain, HOST_OFF + 1, PORT_OFF - 2))

\* rx_buf[260] = 0; rx_buf[275] = 0; the strings at offsets 4 and 261
FrameHost(plain) == CStr(SubSeq(plain, HOST_OFF + 1, PORT_OFF - 1))
FramePort(plain) == CStr(SubSeq(plain, PORT_OFF + 1, ENC_LEN - 1))

\* a length check that only rejects a short first read
BadLength_short(n) == n < REQ_LEN

\* if (rx_bytes != 512): the first read is not one whole request
BadLength(n) == n # REQ_LEN

osocks_local_read_cb_CLOSED ==
    /\ role = "server" /\ Live /\ InLoop /\ ev.lr /\ conn.state = "CLOSED"
    /\ \/ \E r \in RecvFails :
            /\ CloseFreeH([hist EXCEPT !.end = "close_free", !.cause = RecvCause(r),
                                       !.by = "local_read_cb", !.first_len = r])
            /\ ev' = [ev EXCEPT !.lr = FALSE]
            /\ UNCHANGED <<role, conn, dns, net>>
       \/ \E h \in Hosts, rnd \in RandBytes, index \in 0..NumServers, d \in {-1, 0, 1} :
          \E msg \in {Resized(ClientFrame(h, <<56, 48>>, rnd, index), d)} :
          \E gai \in {"NULL", "block"}, launch \in {0, -1} :
            IF BadLength(Len(msg))
            THEN /\ gai = "block" /\ launch = 0
                 /\ conn' = [conn EXCEPT !.rx_buf = msg]
                 /\ CloseFreeH([hist EXCEPT !.end = "close_free", !.cause = "length",
                                            !.by = "local_read_cb",
                                            !.first_len = Len(msg), !.first_key = index])
                 /\ ev' = [ev EXCEPT !.lr = FALSE]
                 /\ UNCHANGED <<role, dns, net>>
            ELSE
            \E st \in {enc_init(DeriveKeyServer(SubSeq(msg, ENC_LEN + 1, REQ_LEN),
                                                PSK(conn.server_index)))} :
            \E plain \in {io_decrypt(SubSeq(msg, 1, ENC_LEN), st)} :
            \E seen \in {[hist EXCEPT !.enc_inits = @ + 1, !.first_len = Len(msg),
                                      !.first_key = index]} :
              /\ conn' = [conn EXCEPT !.rx_buf = plain \o SubSeq(msg, ENC_LEN + 1, Len(msg)),
                                      !.tx_buf = SubSeq(msg, ENC_LEN + 1, REQ_LEN)
                                                    \o PSK(conn.server_index),
                                      !.enc_evp = AfterDecrypt(st, ENC_LEN)]
              /\ IF SubSeq(plain, 1, 4) # MAGIC
                 THEN /\ CloseFreeH([seen EXCEPT !.end = "close_free", !.cause = "magic",
                                                 !.by = "local_read_cb", !.perr = "req_magic"])
                      /\ ev' = [ev EXCEPT !.lr = FALSE]
                      /\ UNCHANGED dns
                 ELSE IF gai = "NULL"
                 THEN /\ CloseFreeH([seen EXCEPT !.end = "close_free", !.cause = "alloc",
                                                 !.by = "local_read_cb"])
                      /\ ev' = [ev EXCEPT !.lr = FALSE]
                      /\ UNCHANGED dns
                 ELSE IF launch # 0
                 THEN /\ fds' = Closed(fds, "local")
                      /\ mem' = Deleted([mem EXCEPT !.block.gai = "live"], "conn")
                      /\ hist' = [seen EXCEPT !.end = "close_free", !.cause = "launch",
                                              !.by = "local_read_cb"]
                      /\ dns' = [dns EXCEPT !.host = FrameHost(plain),
                                            !.port = FramePort(plain)]
                      /\ ev' = [ev EXCEPT !.lr = FALSE]
                 ELSE /\ mem' = [mem EXCEPT !.block.gai = "live"]
                      /\ dns' = [dns EXCEPT !.req = "pending", !.host = FrameHost(plain),
                                            !.port = FramePort(plain)]
                      /\ hist' = seen
                      /\ ev' = [ev EXCEPT !.lr = FALSE, !.at = "local_read_cb"]
                      /\ UNCHANGED fds
              /\ UNCHANGED <<role, net>>

\* local_read_cb has called getaddrinfo_a and returns to ev_run; SIGUSR1 is
\* not blocked in between
osocks_local_read_cb_return ==
    /\ role = "server" /\ ev.at = "local_read_cb"
    /\ ev' = [ev EXCEPT !.at = "loop"]
    /\ UNCHANGED <<role, conn, fds, mem, dns, net, hist>>

\* a reply queued as written, without the io_encrypt call
QueueReply_plain(c, plain, state) ==
    [c EXCEPT !.tx_buf = plain, !.tx_bytes = REP_LEN, !.state = state]

\* a reply queued after a second enc_init with the same key
QueueReply_reinit(c, plain, state) ==
    [c EXCEPT !.tx_buf = io_encrypt(plain, enc_init(c.enc_evp.key)), !.tx_bytes = REP_LEN,
              !.enc_evp = AfterEncrypt(enc_init(c.enc_evp.key), REP_LEN), !.state = state]

\* freeaddrinfo(...); mem_delete(conn->gai); tx_bytes = 4; io_encrypt; start w_local_write
QueueReply(c, plain, state) ==
    [c EXCEPT !.tx_buf = io_encrypt(plain, c.enc_evp), !.tx_bytes = REP_LEN,
              !.enc_evp = AfterEncrypt(@, REP_LEN), !.state = state]

\* a completion that leaves the request of the block outstanding
Released_pending(d, req) ==
    [d EXCEPT !.req = "pending", !.left = 0, !.host = <<>>, !.port = <<>>,
              !.n = 0, !.dialed = <<>>, !.failed = 0]

\* mem_delete(conn->gai): the request, its host and port and the list of
\* candidates go with the block
Released(d, req) ==
    [d EXCEPT !.req = req, !.left = 0, !.host = <<>>, !.port = <<>>,
              !.n = 0, !.dialed = <<>>, !.failed = 0]

\* conn->gai->res: the place in the list ar_result of the candidate at hand
Candidate(d) == d.n - d.left + 1

\* a step to the next candidate that leaves one out
NextCandidate_skip(d) == [d EXCEPT !.left = @ - 2, !.failed = @ + 1]

\* conn->gai->res = conn->gai->res->ai_next, after a connect that failed
NextCandidate(d) == [d EXCEPT !.left = @ - 1, !.failed = @ + 1]

\* connect(conn->sock_remote, conn->gai->res->ai_addr, ...)
Dialed(d) == [d EXCEPT !.dialed = Append(@, Candidate(d))]

osocks_resolv_cb ==
    /\ role = "server" /\ Live /\ dns.req = "pending"
    /\ \/ /\ mem' = Deleted(mem, "gai")
          /\ conn' = QueueReply(conn, Zeros(REP_LEN), "REQ_ERR")
          /\ ev' = [ev EXCEPT !.lw = TRUE]
          /\ dns' = Released(dns, "failed")
          /\ hist' = [hist EXCEPT !.perr = "dns"]
          /\ UNCHANGED <<role, fds, net>>
       \/ \E n \in 1..MaxCand, sock \in {-1, 3} :
            /\ dns' = IF sock < 0
                      THEN [dns EXCEPT !.req = "done", !.left = n, !.n = n]
                      ELSE Dialed([dns EXCEPT !.req = "done", !.left = n, !.n = n])
            /\ IF sock < 0
               THEN /\ fds' = Closed(fds, "local")
                    /\ mem' = Deleted(Deleted(mem, "gai"), "conn")
                    /\ hist' = [hist EXCEPT !.end = "close_free", !.cause = "socket",
                                            !.by = "resolv_cb"]
                    /\ UNCHANGED <<conn, ev>>
               ELSE /\ conn' = [conn EXCEPT !.state = "REQ_RCVD"]
                    /\ fds' = [fds EXCEPT !.sock.remote = "open"]
                    /\ ev' = [ev EXCEPT !.rw = TRUE, !.rw_cb = "connect_cb",
                                        !.inited = @ \cup {"rw"}]
                    /\ hist' = [hist EXCEPT !.dialed = TRUE]
                    /\ UNCHANGED mem
            /\ UNCHANGED <<role, net>>

osocks_connect_cb ==
    /\ role = "server" /\ Live /\ InLoop /\ ev.rw /\ ev.rw_cb = "connect_cb"
    /\ \E error \in SoErrors, sock \in {-1, 3} :
        IF error = 0
        THEN /\ sock = 3
             /\ conn' = QueueReply([conn EXCEPT !.tx_buf = MAGIC], MAGIC, "CONNECTED")
             /\ mem' = Deleted(mem, "gai")
             /\ ev' = [ev EXCEPT !.rw = FALSE, !.lw = TRUE]
             /\ dns' = Released(dns, "done")
             /\ hist' = [hist EXCEPT !.so_error = error]
             /\ UNCHANGED <<role, fds, net>>
        ELSE IF NextCandidate(dns).left > 0
        THEN /\ dns' = IF sock < 0 THEN NextCandidate(dns) ELSE Dialed(NextCandidate(dns))
             /\ IF sock < 0
                THEN /\ fds' = Closed(Closed(fds, "remote"), "local")
                     /\ mem' = Deleted(Deleted(mem, "gai"), "conn")
                     /\ ev' = [ev EXCEPT !.rw = FALSE]
                     /\ hist' = [hist EXCEPT !.end = "close_free", !.cause = "socket",
                                             !.by = "connect_cb", !.so_error = error]
                ELSE /\ fds' = [Closed(fds, "remote") EXCEPT !.sock.remote = "open"]
                     /\ ev' = [ev EXCEPT !.rw = TRUE]
                     /\ hist' = [hist EXCEPT !.so_error = error]
                     /\ UNCHANGED mem
             /\ UNCHANGED <<role, conn, net>>
        ELSE /\ sock = 3
             /\ dns' = Released(dns, "exhausted")
             /\ fds' = Closed(Closed(fds, "remote"), "remote")
             /\ conn' = QueueReply([conn EXCEPT !.tx_buf = Zeros(REP_LEN)],
                                   Zeros(REP_LEN), "REQ_ERR")
             /\ mem' = Deleted(mem, "gai")
             /\ ev' = [ev EXCEPT !.rw = FALSE, !.lw = TRUE]
             /\ hist' = [hist EXCEPT !.perr = "dial", !.so_error = error]
             /\ UNCHANGED <<role, net>>

\* close(conn->sock_local); mem_delete(conn->gai); mem_delete(conn); return;
CloseFreeGai(cause, by) ==
    /\ fds' = Closed(fds, "local")
    /\ mem' = Deleted(Deleted(mem, "gai"), "conn")
    /\ hist' = [hist EXCEPT !.end = "close_free", !.cause = cause, !.by = by]

\* a reply handler that goes on to the relay without looking at the state
AfterStatusSent_relay(state) == "ESTAB"

\* a reply handler that lingers after any reply
AfterStatusSent_wait(state) == "CLOSE_WAIT"

\* the state after the 4-byte reply went out in full
AfterStatusSent(state) == IF state = "CONNECTED" THEN "ESTAB" ELSE "CLOSE_WAIT"

osocks_local_write_cb_REPLY ==
    /\ role = "server" /\ Live /\ InLoop /\ ev.lw /\ conn.state \in {"REQ_ERR", "CONNECTED"}
    /\ \E n \in SendResults(conn.tx_bytes) :
        /\ net' = [net EXCEPT !.to_local = Wire(@, conn.tx_buf, n)]
        /\ IF n # conn.tx_bytes
           THEN /\ ev' = [ev EXCEPT !.lw = FALSE]
                /\ CloseFreeGai(SendCause(n), "local_write_cb")
                /\ UNCHANGED <<role, conn, dns>>
           ELSE IF AfterStatusSent(conn.state) = "ESTAB"
           THEN /\ conn' = [conn EXCEPT !.state = "ESTAB"]
                /\ ev' = [ev EXCEPT !.lw = FALSE, !.lr = TRUE, !.rr = TRUE,
                                    !.rw_cb = "remote_write_cb",
                                    !.inited = @ \cup {"rr", "rw"}]
                /\ UNCHANGED <<role, fds, mem, dns, hist>>
           ELSE /\ conn' = [conn EXCEPT !.state = "CLOSE_WAIT"]
                /\ \/ /\ mem' = [mem EXCEPT !.block.timer = "live"]
                      /\ ev' = [ev EXCEPT !.lw = FALSE, !.timer = TRUE]
                      /\ UNCHANGED <<fds, hist>>
                   \/ /\ ev' = [ev EXCEPT !.lw = FALSE]
                      /\ CloseFreeGai("alloc", "local_write_cb")
                /\ UNCHANGED <<role, dns>>

osocks_closewait_cb ==
    /\ role = "server" /\ Live /\ InLoop /\ ev.timer
    /\ ev' = [ev EXCEPT !.timer = FALSE]
    /\ fds' = Closed(fds, "local")
    /\ mem' = Deleted(Deleted(mem, "timer"), "conn")
    /\ hist' = [hist EXCEPT !.end = "closewait", !.cause = "timer", !.by = "closewait_cb"]
    /\ UNCHANGED <<role, conn, dns, net>>

osocks_local_read_cb_ESTAB ==
    /\ role = "server" /\ Live /\ InLoop /\ ev.lr /\ conn.state = "ESTAB"
    /\ \/ \E r \in RecvFails :
            /\ conn' = [conn EXCEPT !.tx_bytes = r]
            /\ cleanup(ev, Ended(RecvCause(r), "local_read_cb"))
            /\ UNCHANGED <<role, dns, net>>
       \/ \E k \in 1..MaxRecv :
            /\ Len(net.tx_in) + k <= MaxStream
            /\ \E r \in RelaySends(k) :
                LET raw == Next_(PeerByte, net.tx_in, k)
                    buf == io_decrypt(raw, conn.enc_evp)
                IN
                /\ net' = [net EXCEPT !.tx_in = @ \o raw, !.tx_out = @ \o Sent(buf, 0, r.n)]
                /\ conn' = [conn EXCEPT !.tx_buf = buf,
                                        !.enc_evp = AfterDecrypt(@, k),
                                        !.tx_bytes = IF Fatal(r) THEN k ELSE ReadBytes(k, r),
                                        !.tx_offset = IF Fatal(r) THEN @ ELSE ReadOffset(@, k, r)]
                /\ IF Fatal(r)
                   THEN cleanup(ev, Ended("send_err", "local_read_cb"))
                   ELSE /\ ev' = IF ReadBlocks(k, r)
                                 THEN StartWriter(ev, "lr", "rw") ELSE ev
                        /\ UNCHANGED <<fds, mem, hist>>
                /\ UNCHANGED <<role, dns>>

osocks_remote_write_cb_ESTAB ==
    /\ role = "server" /\ Live /\ InLoop /\ ev.rw /\ ev.rw_cb = "remote_write_cb"
    /\ conn.state = "ESTAB"
    /\ \E r \in RelaySends(conn.tx_bytes) :
        /\ net' = [net EXCEPT !.tx_out = @ \o Sent(conn.tx_buf, conn.tx_offset, r.n)]
        /\ IF Fatal(r)
           THEN /\ cleanup(ev, Ended("send_err", "remote_write_cb"))
                /\ UNCHANGED conn
           ELSE /\ conn' = [conn EXCEPT !.tx_offset = WriteOffset(@, conn.tx_bytes, r),
                                        !.tx_bytes = WriteBytes(@, r)]
                /\ ev' = IF Drained(conn.tx_bytes, r)
                         THEN StartReader(ev, "lr", "rw") ELSE ev
                /\ UNCHANGED <<fds, mem, hist>>
        /\ UNCHANGED <<role, dns>>

osocks_remote_read_cb_ESTAB ==
    /\ role = "server" /\ Live /\ InLoop /\ ev.rr /\ conn.state = "ESTAB"
    /\ \/ \E r \in RecvFails :
            /\ conn' = [conn EXCEPT !.rx_bytes = r]
            /\ cleanup(ev, Ended(RecvCause(r), "remote_read_cb"))
            /\ UNCHANGED <<role, dns, net>>
       \/ \E k \in 1..MaxRecv :
            /\ Len(net.rx_in) + k <= MaxStream
            /\ \E r \in RelaySends(k) :
                LET raw == Next_(DestByte, net.rx_in, k)
                    buf == io_encrypt(raw, conn.enc_evp)
                IN
                /\ net' = [net EXCEPT !.rx_in = @ \o raw, !.rx_out = @ \o Sent(buf, 0, r.n)]
                /\ conn' = [conn EXCEPT !.rx_buf = buf,
                                        !.enc_evp = AfterEncrypt(@, k),
                                        !.rx_bytes = IF Fatal(r) THEN k ELSE ReadBytes(k, r),
                                        !.rx_offset = IF Fatal(r) THEN @ ELSE ReadOffset(@, k, r)]
                /\ IF Fatal(r)
                   THEN cleanup(ev, Ended("send_err", "remote_read_cb"))
                   ELSE /\ ev' = IF ReadBlocks(k, r)
                                 THEN StartWriter(ev, "rr", "lw") ELSE ev
                        /\ UNCHANGED <<fds, mem, hist>>
                /\ UNCHANGED <<role, dns>>

osocks_local_write_cb_ESTAB ==
    /\ role = "server" /\ Live /\ InLoop /\ ev.lw /\ conn.state = "ESTAB"
    /\ \E r \in RelaySends(conn.rx_bytes) :
        /\ net' = [net EXCEPT !.rx_out = @ \o Sent(conn.rx_buf, conn.rx_offset, r.n)]
        /\ IF Fatal(r)
           THEN /\ cleanup(ev, Ended("send_err", "local_write_cb"))
                /\ UNCHANGED conn
           ELSE /\ conn' = [conn EXCEPT !.rx_offset = WriteOffset(@, conn.rx_bytes, r),
                                        !.rx_bytes = WriteBytes(@, r)]
                /\ ev' = IF Drained(conn.rx_bytes, r)
                         THEN StartReader(ev, "rr", "lw") ELSE ev
                /\ UNCHANGED <<fds, mem, hist>>
        /\ UNCHANGED <<role, dns>>

NextServer ==
    \/ osocks_accept_cb
    \/ osocks_local_read_cb_CLOSED
    \/ osocks_local_read_cb_return
    \/ osocks_resolv_cb
    \/ osocks_connect_cb
    \/ osocks_local_write_cb_REPLY
    \/ osocks_closewait_cb
    \/ osocks_local_read_cb_ESTAB
    \/ osocks_remote_write_cb_ESTAB
    \/ osocks_remote_read_cb_ESTAB
    \/ osocks_local_write_cb_ESTAB

SpecServer == InitServer /\ [][NextServer]_vars

Next == NextClient \/ NextServer

Spec == Init /\ [][Next]_vars

\* a relay writer runs and its sink takes at least one byte
UpDrain ==
    /\ isocks_remote_write_cb_ESTAB \/ osocks_remote_write_cb_ESTAB
    /\ Len(net'.tx_out) > Len(net.tx_out)
DownDrain ==
    /\ isocks_local_write_cb_ESTAB \/ osocks_local_write_cb_ESTAB
    /\ Len(net'.rx_out) > Len(net.rx_out)

\* ev_run with sinks that keep becoming writable: an armed writer whose socket
\* can take bytes is dispatched
SpecDrain == Spec /\ WF_vars(UpDrain) /\ WF_vars(DownDrain)

\* ev_run with its clock: a started ev_timer expires and its callback runs;
\* no other watcher is due to the passing of time (settimeout only sets
\* SO_SNDTIMEO and SO_RCVTIMEO on sockets that are non-blocking)
SpecTimers == Spec /\ WF_vars(isocks_closewait_cb \/ osocks_closewait_cb)

----------------------------------------------------------------------------
(* The request frame on its own: isocks builds it, osocks parses it *)

\* host[257] and port[15] of isocks local_read_cb: C strings, the host of any
\* length up to 256
HostLens == {0, 1, 7, 254, 255, 256}
FrameHosts == {Bytes([i \in 1..n |-> 97 + (i % 5)]) : n \in HostLens}
FramePorts == {DecStr(p) : p \in {0, 80, 443, 8080, 65535}}

InitFrame == role = "frame" /\ InitCommon

\* isocks, NEGO_SENT: key, MAGIC, strcpy of host and port, io_encrypt of 276 bytes
BuildRequest ==
    /\ role = "frame" /\ conn.tx_bytes = 0
    /\ \E host \in FrameHosts, port \in FramePorts, r \in RandBytes,
          index \in 0..(NumServers - 1) :
        \E frame \in {ClientFrame(host, port, r, index)} :
          /\ conn' = [conn EXCEPT !.tx_buf = frame, !.tx_bytes = Len(frame),
                                  !.server_index = index]
          /\ net' = [net EXCEPT !.to_remote = <<frame>>]
          /\ hist' = [hist EXCEPT !.host = host, !.port = port]
    /\ UNCHANGED <<role, ev, fds, mem, dns>>

\* osocks, CLOSED: key from the IV of the frame, io_decrypt of 276 bytes, the
\* two strings
ParseRequest ==
    /\ role = "frame" /\ net.to_remote # <<>> /\ conn.rx_bytes = 0
    /\ \E msg \in {net.to_remote[1]} :
       \E st \in {enc_init(DeriveKeyServer(SubSeq(msg, ENC_LEN + 1, REQ_LEN),
                                           PSK(conn.server_index)))} :
       \E plain \in {io_decrypt(SubSeq(msg, 1, ENC_LEN), st)} :
          /\ conn' = [conn EXCEPT !.rx_buf = plain \o SubSeq(msg, ENC_LEN + 1, Len(msg)),
                                  !.rx_bytes = Len(msg)]
          /\ dns' = [dns EXCEPT !.host = FrameHost(plain), !.port = FramePort(plain)]
    /\ UNCHANGED <<role, ev, fds, mem, net, hist>>

NextFrame == BuildRequest \/ ParseRequest

SpecFrame == InitFrame /\ [][NextFrame]_vars

----------------------------------------------------------------------------
(* The key on its own: isocks derives it for a request, osocks from the frame *)

\* keys of a configuration, shorter and longer than the 256 bytes that count
KeyLens == {0, 1, 2, 255, 256, 257, 300}
Keys == {Bytes([i \in 1..n |-> 33 + ((7 * i) % 90)]) : n \in KeyLens}
\* 236 random bytes
KeyIVs == {Bytes([i \in 1..IV_LEN |-> (r * i + r) % 256]) : r \in 0..7}

InitKey == role = "key" /\ InitCommon

\* isocks: rand_bytes(rx_buf, 236); memcpy of the key behind it; the chain
isocks_key ==
    /\ role = "key" /\ hist.key = <<>>
    /\ \E iv \in KeyIVs, psk \in Keys :
       \E key \in {DeriveKey(iv, psk)} :
          /\ conn' = [conn EXCEPT !.rx_buf = iv \o SubSeq(psk, 1, key_len(psk)),
                                  !.enc_evp = enc_init(key)]
          /\ net' = [net EXCEPT !.to_remote = <<iv>>]
          /\ hist' = [hist EXCEPT !.psk = psk, !.key = key, !.enc_inits = @ + 1]
    /\ UNCHANGED <<role, ev, fds, mem, dns>>

\* osocks: memcpy of the IV of the frame to tx_buf, of the key behind it; the chain
osocks_key ==
    /\ role = "key" /\ hist.key # <<>> /\ hist.enc_inits = 1
    /\ \E iv \in {net.to_remote[1]} :
       \E key \in {DeriveKeyServer(iv, hist.psk)} :
          /\ conn' = [conn EXCEPT !.tx_buf = iv \o SubSeq(hist.psk, 1, key_len(hist.psk)),
                                  !.enc_evp = enc_init(key)]
          /\ hist' = [hist EXCEPT !.enc_inits = @ + 1]
    /\ UNCHANGED <<role, ev, fds, mem, dns, net>>

NextKey == isocks_key \/ osocks_key

SpecKey == InitKey /\ [][NextKey]_vars

-----------------------------------------------------------------------------
(* The name resolution block of osocks: the strings of any accepted frame *)

\* char host[264]; char port[8]; of gai_t
HOST_SIZE == 264
PORT_SIZE == 8

\* the bytes before the first NUL of the HOST and of the PORT field of a frame
\* that any peer holding the key sends; a field may hold no NUL at all
PeerHostLens == {0, 1, 255, 256, PORT_OFF - HOST_OFF}
PeerPortLens == 0..(ENC_LEN - PORT_OFF)

\* recv of 512 bytes: MAGIC, HOST, PORT under the key of the IV that follows
PeerFrame(hl, pl, r, index) ==
    io_encrypt(MAGIC \o Bytes([i \in 1..(PORT_OFF - HOST_OFF) |->
                                  IF i <= hl THEN 97 + (i % 5) ELSE 0])
                     \o Bytes([i \in 1..(ENC_LEN - PORT_OFF) |->
                                  IF i <= pl THEN 49 ELSE 0]),
               enc_init(DeriveKey(IV(r), PSK(index)))) \o IV(r)

\* a peer of osocks sends one request frame
PeerRequest ==
    /\ role = "frame" /\ conn.tx_bytes = 0
    /\ \E hl \in PeerHostLens, pl \in PeerPortLens, r \in RandBytes,
          index \in 0..(NumServers - 1) :
        \E frame \in {PeerFrame(hl, pl, r, index)} :
          /\ conn' = [conn EXCEPT !.tx_buf = frame, !.tx_bytes = Len(frame),
                                  !.server_index = index]
          /\ net' = [net EXCEPT !.to_remote = <<frame>>]
          /\ hist' = [hist EXCEPT !.host = Bytes([i \in 1..hl |-> 97 + (i % 5)]),
                                  !.port = Bytes([i \in 1..pl |-> 49])]
    /\ UNCHANGED <<role, ev, fds, mem, dns>>

NextGai == PeerRequest \/ ParseRequest

SpecGai == InitFrame /\ [][NextGai]_vars

----------------------------------------------------------------------------
(* Properties *)

Last(s) == s[Len(s)]
Armed == ev.lr \/ ev.lw \/ ev.rr \/ ev.rw

\* what the relay makes of the bytes s of a source: isocks encrypts the
\* application's bytes after the 276 of the request and decrypts the
\* destination's after the 4 of the reply; osocks does the converse
Upstream(s) ==
    [i \in 1..Len(s) |->
        LET ks == Keystream(conn.enc_evp.key, ENC_LEN + i - 1)
        IN  IF role = "client" THEN (s[i] + ks) % 256 ELSE (s[i] + 256 - ks) % 256]
Downstream(s) ==
    [i \in 1..Len(s) |->
        LET ks == Keystream(conn.enc_evp.key, REP_LEN + i - 1)
        IN  IF role = "client" THEN (s[i] + 256 - ks) % 256 ELSE (s[i] + ks) % 256]

RelayPrefix ==
    /\ IsPrefix(net.tx_out, Upstream(net.tx_in))
    /\ IsPrefix(net.rx_out, Downstream(net.rx_in))

\* C1: in each direction of the relay the bytes handed to the sink are a
\* prefix of the bytes read from the source, in order and with nothing lost or
\* repeated, and once the connection has ended on an end of file the two are
\* equal
C1_RelayStreams ==
    conn.state = "ESTAB" =>
        /\ RelayPrefix
        /\ hist.end = "cleanup" /\ hist.cause = "eof" =>
              /\ net.tx_out = Upstream(net.tx_in)
              /\ net.rx_out = Downstream(net.rx_in)

\* C2: while a connection is in ESTAB exactly one of the local reader and the
\* remote writer is armed, and exactly one of the remote reader and the local
\* writer
C2_Interlock ==
    conn.state = "ESTAB" /\ Live =>
        /\ ev.lr # ev.rw
        /\ ev.rr # ev.lw

C2_Witness ==
    /\ conn.state = "ESTAB" /\ Live
    /\ ev.rw /\ ~ev.lr /\ conn.tx_bytes > 0
    /\ ev.lw /\ ~ev.rr /\ conn.rx_bytes > 0

IsocksEdges ==
    {<<"CLOSED", "NEGO_RCVD">>, <<"CLOSED", "NEGO_ERR">>, <<"NEGO_RCVD", "NEGO_SENT">>,
     <<"NEGO_ERR", "CLOSE_WAIT">>, <<"NEGO_SENT", "CMD_RCVD">>, <<"NEGO_SENT", "CMD_ERR">>,
     <<"CMD_ERR", "CLOSE_WAIT">>, <<"CMD_RCVD", "CONNECTED">>, <<"CMD_RCVD", "REQ_ERR">>,
     <<"CONNECTED", "REQ_SENT">>, <<"REQ_SENT", "REP_RCVD">>, <<"REQ_SENT", "REQ_ERR">>,
     <<"REP_RCVD", "ESTAB">>, <<"REQ_ERR", "CLOSE_WAIT">>}

\* C3: an isocks connection starts in CLOSED and changes state only along the
\* listed edges, and it is in ESTAB only after the success reply 05 00 00 01
\* and six zero bytes went out to the application in full
C3_IsocksStates ==
    /\ [][role = "client" =>
            /\ conn.state = "NONE" => conn'.state \in {"NONE", "CLOSED"}
            /\ conn.state # "NONE" /\ conn'.state # conn.state =>
                  <<conn.state, conn'.state>> \in IsocksEdges]_vars
    /\ [](role = "client" /\ conn.state = "ESTAB" =>
            /\ net.to_local # <<>>
            /\ Last(net.to_local) = <<5, 0, 0, 1, 0, 0, 0, 0, 0, 0>>)

C3_Witness ==
    /\ role = "client" /\ conn.state = "ESTAB" /\ Live
    /\ net.to_local = <<<<5, 0>>, <<5, 0, 0, 1, 0, 0, 0, 0, 0, 0>>>>

OsocksClaimedEdges ==
    {<<"CLOSED", "REQ_RCVD">>, <<"REQ_RCVD", "CONNECTED">>, <<"REQ_RCVD", "REQ_ERR">>,
     <<"CONNECTED", "ESTAB">>, <<"REQ_ERR", "CLOSE_WAIT">>}

\* the 4-byte reply on the wire: the first four keystream bytes added
StatusFrame(plain) ==
    [i \in 1..REP_LEN |-> (plain[i] + Keystream(conn.enc_evp.key, i - 1)) % 256]

\* C4 as stated: an osocks connection starts in CLOSED and changes state only
\* along CLOSED->REQ_RCVD, REQ_RCVD->CONNECTED, REQ_RCVD->REQ_ERR,
\* CONNECTED->ESTAB and REQ_ERR->CLOSE_WAIT
C4_ClaimedEdges ==
    [][role = "server" /\ conn.state # "NONE" /\ conn'.state # conn.state =>
            <<conn.state, conn'.state>> \in OsocksClaimedEdges]_vars

\* C4: an osocks connection starts in CLOSED, stays there while the name
\* resolution is pending, and changes state only along the claimed edges or
\* along CLOSED->REQ_ERR, taken when the resolution fails; it is in ESTAB only
\* after the 4-byte success reply went out in full
C4_OsocksStates ==
    /\ [][role = "server" =>
            /\ conn.state = "NONE" => conn'.state \in {"NONE", "CLOSED"}
            /\ conn.state # "NONE" /\ conn'.state # conn.state =>
                  \/ <<conn.state, conn'.state>> \in OsocksClaimedEdges
                  \/ /\ <<conn.state, conn'.state>> = <<"CLOSED", "REQ_ERR">>
                     /\ dns.req = "pending" /\ dns'.req = "failed"]_vars
    /\ [](role = "server" /\ dns.req = "pending" => conn.state = "CLOSED")
    /\ [](role = "server" /\ conn.state = "ESTAB" =>
            net.to_local = <<StatusFrame(MAGIC)>>)

C4_Witness ==
    /\ role = "server" /\ Live
    /\ conn.state = "REQ_ERR" /\ dns.req = "failed" /\ ev.lw

\* C5: after a recv that returned 0 or less or a wrong size, or a send that
\* failed or was short, both sockets are closed, the four watchers are
\* stopped and the CCB is released
C5_Teardown ==
    hist.cause \in {"eof", "recv_err", "send_err", "short"} =>
        /\ fds.sock.local = "closed"
        /\ fds.sock.remote # "open"
        /\ ~Armed
        /\ mem.block.conn = "freed"

\* the errors of a greeting and of a request, read as the handlers read the
\* zero-filled buffer
BadGreeting(buf) ==
    \/ At(buf, 0) # 5
    \/ \A i \in 0..(At(buf, 1) - 1) : At(buf, 2 + i) # 0
RequestRead == hist.req_cmd # -1
BadRequest ==
    RequestRead /\ (hist.req_ver # 5 \/ hist.req_cmd # 1 \/ hist.req_atyp \notin {1, 3, 4})
RequestRep ==
    IF hist.req_atyp \notin {1, 3, 4} THEN 8 ELSE IF hist.req_cmd # 1 THEN 7 ELSE 1
DialsFailed == dns.req = "exhausted"
ForeignKey == hist.first_len = 512 /\ hist.first_key # conn.server_index

\* the protocol error met so far, and the frame that answers it
ProtocolError ==
    IF role = "client"
    THEN IF BadRequest THEN "request"
         ELSE IF hist.inner = "magic" THEN "reply_magic"
         ELSE IF ~RequestRead /\ conn.state \in {"NEGO_RCVD", "NEGO_ERR", "CLOSE_WAIT"}
                 /\ BadGreeting(conn.rx_buf) THEN "greeting"
         ELSE "none"
    ELSE IF ForeignKey THEN "req_magic"
         ELSE IF dns.req = "failed" THEN "dns"
         ELSE IF DialsFailed THEN "dial"
         ELSE "none"
ErrorFrame ==
    CASE ProtocolError = "greeting" -> <<5, 255>>
      [] ProtocolError = "request" -> <<5, RequestRep, 0, 1, 0, 0, 0, 0, 0, 0>>
      [] ProtocolError = "reply_magic" -> <<5, 5, 0, 1, 0, 0, 0, 0, 0, 0>>
      [] ProtocolError \in {"dns", "dial"} -> StatusFrame(<<0, 0, 0, 0>>)
      [] OTHER -> <<>>
ErrorStates == {"NEGO_ERR", "CMD_ERR", "REQ_ERR"}

C7_AlwaysReplied ==
    role = "client" /\ hist.inner # "none" =>
        /\ conn.state \in {"REQ_ERR", "CLOSE_WAIT"}
        /\ conn.state = "REQ_ERR" /\ Live =>
              conn.tx_buf = <<5, 5, 0, 1, 0, 0, 0, 0, 0, 0>>

\* C7: a failed connect to the upstream server and a reply whose magic is
\* wrong queue the reply 05 05 00 01 and six zero bytes and lead to
\* CLOSE_WAIT; a failed or short send of the 512-byte request and a reply
\* read of other than 4 bytes end the connection by cleanup, and the
\* application gets no SOCKS5 reply
C7_InnerFailure ==
    role = "client" =>
        /\ hist.inner \in {"connect", "magic"} =>
              /\ conn.state \in {"REQ_ERR", "CLOSE_WAIT"}
              /\ conn.state = "REQ_ERR" /\ Live =>
                    /\ ev.lw /\ conn.tx_bytes = 10
                    /\ conn.tx_buf = <<5, 5, 0, 1, 0, 0, 0, 0, 0, 0>>
              /\ conn.state = "CLOSE_WAIT" =>
                    net.to_local = <<<<5, 0>>, <<5, 5, 0, 1, 0, 0, 0, 0, 0, 0>>>>
        /\ hist.inner \in {"send", "read"} =>
              /\ conn.state \in {"CONNECTED", "REQ_SENT"}
              /\ hist.end = "cleanup" /\ fds.sock.local = "closed"
              /\ net.to_local = <<<<5, 0>>>>

C7_Witness ==
    /\ role = "client" /\ hist.inner = "read" /\ hist.end = "cleanup"
    /\ conn.state = "REQ_SENT" /\ net.to_local = <<<<5, 0>>>>

\* C8 as stated: a request whose CMD is not 1 is answered with REP 07,
\* whatever its VER and ATYP
C8_AlwaysSeven ==
    role = "client" /\ RequestRead /\ hist.req_cmd # 1 /\ Live /\ conn.state = "CMD_ERR" =>
        conn.tx_buf = <<5, 7, 0, 1, 0, 0, 0, 0, 0, 0>>

\* C8: a request whose CMD is not 1 is never dialled: the connection goes to
\* CMD_ERR and from there only to CLOSE_WAIT; the reply carries REP 07 when
\* the ATYP is 1, 3 or 4 and REP 08 when it is not, whatever the VER
C8_Command ==
    role = "client" /\ RequestRead /\ hist.req_cmd # 1 =>
        /\ ~hist.dialed /\ fds.sock.remote = "none" /\ hist.enc_inits = 0
        /\ conn.state \in {"CMD_ERR", "CLOSE_WAIT"}
        /\ LET rep == IF hist.req_atyp \in {1, 3, 4} THEN 7 ELSE 8 IN
           /\ conn.state = "CMD_ERR" /\ Live =>
                 /\ ev.lw /\ conn.tx_bytes = 10
                 /\ conn.tx_buf = <<5, rep, 0, 1, 0, 0, 0, 0, 0, 0>>
           /\ conn.state = "CLOSE_WAIT" =>
                 Last(net.to_local) = <<5, rep, 0, 1, 0, 0, 0, 0, 0, 0>>

C8_Witness ==
    /\ role = "client" /\ Live /\ conn.state = "CMD_ERR"
    /\ hist.req_ver = 4 /\ hist.req_cmd = 2 /\ hist.req_atyp = 9
    /\ conn.tx_buf = <<5, 8, 0, 1, 0, 0, 0, 0, 0, 0>>

\* the greeting the application sent offers "no authentication": VER is 5 and
\* one of the NMETHODS method bytes that follow is 00
OffersNoAuth(g) ==
    /\ Len(g) >= 2 /\ g[1] = 5
    /\ \E i \in 1..g[2] : 2 + i <= Len(g) /\ g[2 + i] = 0

\* C9: a greeting is accepted, and answered 05 00, exactly when its VER is 5
\* and 00 is among its first NMETHODS method bytes; any other greeting is
\* answered 05 FF
C9_Greeting ==
    role = "client" /\ Live /\ conn.state \in {"NEGO_RCVD", "NEGO_ERR"} =>
        IF OffersNoAuth(conn.rx_buf)
        THEN conn.state = "NEGO_RCVD" /\ conn.tx_buf = <<5, 0>>
        ELSE conn.state = "NEGO_ERR" /\ conn.tx_buf = <<5, 255>>

FirstRead == hist.first_len # -2
ValidRequest == hist.first_len = 512 /\ hist.first_key = conn.server_index

\* C10 as stated: a first read of 512 bytes with the right magic goes on to
\* the name resolution; any other first read closes and frees the connection
\* with no resolution and no reply
C10_AlwaysResolves ==
    role = "server" =>
        /\ ValidRequest => dns.req # "idle"
        /\ FirstRead /\ hist.first_len # 512 =>
              /\ fds.sock.local = "closed" /\ mem.block.conn = "freed"
              /\ dns.req = "idle" /\ net.to_local = <<>>

\* C10: a first read of 512 bytes with the right magic goes on to the name
\* resolution unless the gai block cannot be allocated or getaddrinfo_a
\* refuses the request, in which case the connection is closed and freed with
\* no reply; any other first read closes and frees the connection with no
\* resolution and no reply
C10_FirstRead ==
    role = "server" =>
        /\ ValidRequest =>
              \/ /\ dns.req # "idle"
                 /\ dns.req = "pending" => dns.host \in Hosts /\ dns.port = <<56, 48>>
              \/ /\ hist.end = "close_free" /\ hist.cause \in {"alloc", "launch"}
                 /\ fds.sock.local = "closed" /\ mem.block.conn = "freed"
                 /\ net.to_local = <<>>
        /\ FirstRead /\ hist.first_len # 512 =>
              /\ fds.sock.local = "closed" /\ mem.block.conn = "freed"
              /\ dns.req = "idle" /\ mem.block.gai = "none" /\ ~hist.dialed
              /\ net.to_local = <<>>

C10_Witness ==
    /\ role = "server" /\ ValidRequest
    /\ hist.end = "close_free" /\ hist.cause = "alloc" /\ dns.req = "idle"

\* C11: the 4-byte reply osocks queues is the encrypted MAGIC exactly when a
\* connect succeeded (state CONNECTED) and four encrypted zero bytes exactly
\* when the resolution failed or every candidate failed (state REQ_ERR); it
\* went through the cipher once, as the first four bytes of the encrypting
\* direction, and no byte is relayed before it is sent
C11_StatusReply ==
    role = "server" =>
        /\ conn.state \in {"CLOSED", "REQ_RCVD"} =>
              /\ hist.enc_inits = 1 => conn.enc_evp.enc = 0
              /\ ~ev.lw /\ net.to_local = <<>>
        /\ conn.state \in {"CONNECTED", "REQ_ERR"} =>
              /\ conn.enc_evp.enc = REP_LEN /\ conn.tx_bytes = REP_LEN
              /\ Live => ev.lw /\ net.to_local = <<>>
              /\ conn.tx_buf = StatusFrame(MAGIC) <=> conn.state = "CONNECTED"
              /\ conn.tx_buf = StatusFrame(<<0, 0, 0, 0>>) <=> conn.state = "REQ_ERR"
              /\ conn.state = "CONNECTED" <=> hist.so_error = 0
              /\ conn.state = "REQ_ERR" <=> dns.req \in {"failed", "exhausted"}
        /\ hist.so_error = 0 => conn.state \in {"CONNECTED", "ESTAB"}
        /\ dns.req \in {"failed", "exhausted"} => conn.state \in {"REQ_ERR", "CLOSE_WAIT"}
        /\ net.tx_in # <<>> \/ net.rx_in # <<>> =>
              /\ net.to_local = <<StatusFrame(MAGIC)>>
              /\ conn.enc_evp.enc = REP_LEN + Len(net.rx_in)

C11_Witness ==
    /\ role = "server" /\ Live /\ ev.lw
    /\ conn.state = "REQ_ERR" /\ dns.req = "exhausted"
    /\ conn.tx_buf = StatusFrame(<<0, 0, 0, 0>>)
    /\ conn.tx_buf # <<0, 0, 0, 0>>

\* the candidates 1..k in the order of the list
FirstCandidates(k) == [i \in 1..k |-> i]

\* C12: osocks dials the candidates of a resolution in list order and one at
\* a time: candidate k+1 is dialled only in the step that sees the connect to
\* candidate k fail; a connect whose SO_ERROR is 0 leads to CONNECTED and no
\* further dial; REQ_ERR is entered from REQ_RCVD only when the connect to the
\* last candidate fails
C12_DialOrder ==
    /\ [](role = "server" /\ conn.state = "REQ_RCVD" /\ Live =>
            /\ dns.req = "done" /\ dns.n >= 1
            /\ dns.dialed # <<>> /\ Len(dns.dialed) <= dns.n
            /\ dns.dialed = FirstCandidates(Len(dns.dialed))
            /\ dns.failed = Len(dns.dialed) - 1
            /\ fds.sock.remote = "open" /\ ev.rw /\ ~ev.lw)
    /\ [](role = "server" /\ conn.state \in {"CONNECTED", "ESTAB", "REQ_ERR", "CLOSE_WAIT"} =>
            dns.dialed = <<>> /\ ~(ev.rw /\ ev.rw_cb = "connect_cb"))
    /\ [][role = "server" =>
            /\ Len(dns'.dialed) > Len(dns.dialed) =>
                  /\ dns'.dialed = Append(dns.dialed, Len(dns.dialed) + 1)
                  /\ dns'.failed = Len(dns.dialed)
                  /\ dns.dialed # <<>> => hist'.so_error # 0
            /\ conn.state = "REQ_RCVD" /\ Live /\ Live' /\ hist'.so_error = 0 =>
                  /\ conn'.state = "CONNECTED"
                  /\ fds'.sock = fds.sock /\ fds'.closes = fds.closes
            /\ conn.state = "REQ_RCVD" /\ conn'.state = "CONNECTED" =>
                  hist'.so_error = 0
            /\ conn.state = "REQ_RCVD" /\ conn'.state = "REQ_ERR" =>
                  /\ Len(dns.dialed) = dns.n /\ dns.failed = dns.n - 1
                  /\ hist'.so_error # 0 /\ dns'.req = "exhausted"]_vars

C12_Witness ==
    /\ role = "server" /\ Live /\ conn.state = "REQ_RCVD"
    /\ dns.n = MaxCand /\ dns.dialed = FirstCandidates(MaxCand)
    /\ dns.failed = MaxCand - 1

\* a direction of the relay with bytes left in its buffer and its writer armed
UpPending == Live /\ conn.state = "ESTAB" /\ ev.rw
DownPending == Live /\ conn.state = "ESTAB" /\ ev.lw
\* the direction has sent all it read and reads again
UpDrained ==
    /\ Live /\ conn.state = "ESTAB" /\ ev.lr /\ ~ev.rw
    /\ net.tx_out = Upstream(net.tx_in)
DownDrained ==
    /\ Live /\ conn.state = "ESTAB" /\ ev.rr /\ ~ev.lw
    /\ net.rx_out = Downstream(net.rx_in)

\* C13: in ESTAB, once a read handler has left bytes in a buffer and armed
\* the writer, with a sink that keeps becoming writable the writer eventually
\* sends every byte that is left, is stopped and the reader of the direction is
\* started again, unless an end of file or an error tears the connection down
\* first; as long as the writer is armed no step reads into the buffer
C13_Drains ==
    /\ UpPending ~> (UpDrained \/ ~Live)
    /\ DownPending ~> (DownDrained \/ ~Live)
    /\ [][/\ UpPending => net'.tx_in = net.tx_in /\ conn'.tx_buf = conn.tx_buf
          /\ DownPending => net'.rx_in = net.rx_in /\ conn'.rx_buf = conn.rx_buf]_vars

\* a direction that has drained after a send took one byte of two
C13_Witness ==
    /\ UpDrained /\ conn.tx_offset = 1 /\ Len(net.tx_out) = 2
    /\ conn.tx_bytes = 1

\* a step of resolv_cb: the request of the CCB stops being pending
ResolvStep == dns.req = "pending" /\ dns'.req # "pending"

\* C14: resolv_cb never runs while a callback of the event loop is in the
\* middle of running: every step of resolv_cb starts with the thread of
\* ev_run between two callbacks
C14_LoopOnly == [][role = "server" /\ ResolvStep => InLoop]_vars

\* C15: with the same key at both ends, the 512 bytes isocks builds for a
\* host of any length from 0 to 256 and a port (magic, host at offset 4, port
\* at offset 261, these 276 bytes encrypted, the IV in clear behind them) are
\* parsed by osocks to the magic and to the same host and port
C15_RoundTrip ==
    role = "frame" =>
        /\ conn.tx_bytes # 0 =>
              /\ Len(conn.tx_buf) = REQ_LEN
              /\ \E r \in RandBytes :
                    /\ SubSeq(conn.tx_buf, ENC_LEN + 1, REQ_LEN) = IV(r)
                    /\ SubSeq(conn.tx_buf, 1, ENC_LEN)
                          = io_encrypt(MAGIC \o Field(hist.host, PORT_OFF - HOST_OFF)
                                             \o Field(hist.port, ENC_LEN - PORT_OFF),
                                       enc_init(DeriveKey(IV(r), PSK(conn.server_index))))
        /\ conn.rx_bytes # 0 =>
              /\ SubSeq(conn.rx_buf, 1, 4) = MAGIC
              /\ dns.host = hist.host
              /\ dns.port = hist.port

\* the longest host has gone through: 256 bytes, parsed whole
C15_Witness ==
    /\ role = "frame" /\ conn.rx_bytes = REQ_LEN
    /\ Len(hist.host) = 256 /\ dns.host = hist.host /\ hist.port = DecStr(65535)

\* C16: for an IV of 236 bytes and a key P, isocks and osocks compute the
\* same 64 bytes: both hash the IV followed by the first min(len(P), 256)
\* bytes of P, and k[0..16) = MD5 of that, k[16..32) = MD5(k[0..16)),
\* k[32..48) = MD5(k[0..32)), k[48..64) = MD5(k[0..48))
C16_SameKey ==
    role = "key" /\ hist.key # <<>> =>
        LET iv == net.to_remote[1]
            hashed == iv \o Take(hist.psk, 256)
            k == hist.key
        IN  /\ Len(iv) = IV_LEN /\ Len(k) = 64
            /\ conn.rx_buf = hashed
            /\ SubSeq(k, 1, 16) = md5(hashed)
            /\ SubSeq(k, 17, 32) = md5(SubSeq(k, 1, 16))
            /\ SubSeq(k, 33, 48) = md5(SubSeq(k, 1, 32))
            /\ SubSeq(k, 49, 64) = md5(SubSeq(k, 1, 48))
            /\ hist.enc_inits = 2 =>
                  /\ conn.tx_buf = hashed
                  /\ conn.enc_evp.key = k

\* both ends have the key of a 300-byte P, of which 256 bytes were hashed
C16_Witness ==
    /\ role = "key" /\ hist.enc_inits = 2 /\ conn.enc_evp.key = hist.key
    /\ Len(hist.psk) = 300 /\ Len(conn.tx_buf) = IV_LEN + 256

\* a CCB in a handshake state whose next step is a read from a peer
Waiting ==
    /\ Live
    /\ \/ role = "client" /\ conn.state \in {"CLOSED", "NEGO_SENT"} /\ ev.lr
       \/ role = "client" /\ conn.state = "REQ_SENT" /\ ev.rr
       \/ role = "server" /\ conn.state = "CLOSED" /\ ev.lr

\* C17: a CCB that waits in a handshake state (isocks CLOSED, NEGO_SENT,
\* REQ_SENT; osocks CLOSED) for a peer that never sends does not wait for
\* ever: it is eventually torn down and its block freed
C17_TornDown == Waiting ~> (~Live \/ ~Waiting)

\* C18: a CCB is freed at most once, by a handler that closes and frees at
\* once, by cleanup or by the CLOSE_WAIT timer; once it is freed none of its
\* watchers and no timer is armed and no resolution that points to it is
\* pending
C18_FreedOnce ==
    /\ mem.frees.conn <= 1
    /\ mem.block.conn = "live" => mem.frees.conn = 0 /\ hist.end = "none"
    /\ mem.block.conn = "freed" =>
          /\ mem.frees.conn = 1
          /\ hist.end \in {"close_free", "cleanup", "closewait"}
          /\ ~Armed /\ ~ev.timer
          /\ dns.req # "pending"

\* a CCB freed by cleanup in the relay, with both watchers of a direction stopped
C18_Witness ==
    /\ mem.block.conn = "freed" /\ hist.end = "cleanup" /\ conn.state = "ESTAB"
    /\ mem.frees.conn = 1 /\ ~Armed

\* C19: the gai block osocks allocates in CLOSED is freed exactly once in
\* the life of its CCB: no handler frees it a second time and it is not left
\* allocated when the CCB is freed
C19_GaiOnce ==
    role = "server" =>
        /\ mem.frees.gai <= 1
        /\ mem.block.conn = "freed" /\ mem.block.gai # "none" =>
              mem.block.gai = "freed" /\ mem.frees.gai = 1

\* the bytes of a buffer that wait for the writer
Leftover(buf, offset, bytes) == SubSeq(buf, offset + 1, offset + bytes)

\* C20: at each end every byte of the relay goes through the cipher exactly
\* once, in the read handler after recv: the cipher has advanced by as many
\* bytes as were read, what reached the sink is the ciphered source in order,
\* and the bytes a partial or refused send left in the buffer are exactly the
\* ciphered bytes not yet sent, which the write handler sends as they are
C20_CipherOnce ==
    conn.state = "ESTAB" =>
        /\ role = "client" =>
              /\ conn.enc_evp.enc = ENC_LEN + Len(net.tx_in)
              /\ conn.enc_evp.dec = REP_LEN + Len(net.rx_in)
        /\ role = "server" =>
              /\ conn.enc_evp.dec = ENC_LEN + Len(net.tx_in)
              /\ conn.enc_evp.enc = REP_LEN + Len(net.rx_in)
        /\ RelayPrefix
        /\ Live =>
              /\ net.tx_out \o (IF ev.rw THEN Leftover(conn.tx_buf, conn.tx_offset, conn.tx_bytes)
                                ELSE <<>>) = Upstream(net.tx_in)
              /\ net.rx_out \o (IF ev.lw THEN Leftover(conn.rx_buf, conn.rx_offset, conn.rx_bytes)
                                ELSE <<>>) = Downstream(net.rx_in)

\* the write handler has sent the byte a partial send of two had left
C20_Witness ==
    /\ conn.state = "ESTAB" /\ Live /\ ev.rr /\ ~ev.lw
    /\ conn.rx_offset = 1 /\ conn.rx_bytes = 1 /\ Len(net.rx_in) = 2
    /\ net.rx_out = Downstream(net.rx_in) /\ net.rx_out # net.rx_in

\* the bytes an end has put through its encrypt and its decrypt stream: the
\* 276 of the request and the relay upstream, the 4 of the reply and the relay
\* downstream
Encrypted == IF role = "client" THEN ENC_LEN + Len(net.tx_in)
             ELSE IF conn.enc_evp.enc = 0 THEN 0 ELSE REP_LEN + Len(net.rx_in)
Decrypted == IF role = "server" THEN ENC_LEN + Len(net.tx_in)
             ELSE IF conn.enc_evp.dec = 0 THEN 0 ELSE REP_LEN + Len(net.rx_in)

\* a step after enc_init keeps the key and moves no stream backwards
KeepsCipher ==
    role \in {"client", "server"} /\ hist.enc_inits = 1 =>
        /\ hist'.enc_inits = 1
        /\ conn'.enc_evp.key = conn.enc_evp.key
        /\ conn'.enc_evp.enc >= conn.enc_evp.enc
        /\ conn'.enc_evp.dec >= conn.enc_evp.dec

\* C21: the cipher state of a CCB is initialised exactly once (isocks in
\* NEGO_SENT, osocks in CLOSED) and never again; each stream then stands at
\* the number of bytes of its direction, the 276 of the request and the 4 of
\* the reply counted, so the k-th byte an end encrypts meets the k-th
\* position of the stream the other end decrypts with, whatever the order in
\* which the two directions move
C21_LockStep ==
    /\ [](role \in {"client", "server"} =>
            /\ hist.enc_inits <= 1
            /\ hist.enc_inits = 0 => conn.enc_evp = enc_init(<<0>>)
            /\ hist.enc_inits = 1 =>
                  /\ conn.enc_evp.enc = Encrypted /\ conn.enc_evp.dec = Decrypted
                  /\ Len(conn.enc_evp.key) = 64
                  /\ conn.state \in {"REP_RCVD", "ESTAB"} =>
                        conn.enc_evp.enc > 0 /\ conn.enc_evp.dec > 0
            /\ RelayPrefix)
    /\ [][KeepsCipher]_vars

\* both directions of an osocks relay have moved, the downstream one first
C21_Witness ==
    /\ role = "server" /\ conn.state = "ESTAB" /\ hist.enc_inits = 1
    /\ conn.enc_evp.enc = REP_LEN + 2 /\ conn.enc_evp.dec = ENC_LEN + 1

\* a step of a relay writer that stays armed: the offset moves by what the
\* sink took and the count drops by as much
PartialWrites ==
    conn.state = "ESTAB" /\ Live /\ Live' =>
        /\ ev.rw /\ ev'.rw =>
              /\ conn'.tx_offset - conn.tx_offset = Len(net'.tx_out) - Len(net.tx_out)
              /\ conn.tx_bytes - conn'.tx_bytes = Len(net'.tx_out) - Len(net.tx_out)
        /\ ev.lw /\ ev'.lw =>
              /\ conn'.rx_offset - conn.rx_offset = Len(net'.rx_out) - Len(net.rx_out)
              /\ conn.rx_bytes - conn'.rx_bytes = Len(net'.rx_out) - Len(net.rx_out)

\* C22 as stated: in every state of a CCB in ESTAB the two offsets are not
\* negative and offset + bytes is at most 8192 in both directions, and while a
\* writer is armed offset + bytes is the count of the read that filled the
\* buffer
C22_AlwaysBounded ==
    conn.state = "ESTAB" /\ Live =>
        /\ 0 <= conn.tx_offset /\ 0 <= conn.rx_offset
        /\ conn.tx_bytes + conn.tx_offset <= BUF_SIZE
        /\ conn.rx_bytes + conn.rx_offset <= BUF_SIZE
        /\ ev.rw => conn.tx_offset + conn.tx_bytes = Len(conn.tx_buf)
        /\ ev.lw => conn.rx_offset + conn.rx_bytes = Len(conn.rx_buf)

\* C22: in ESTAB, while the writer of a direction is armed its offset is not
\* negative and offset + bytes is the count of the read that filled the
\* buffer, hence at most 8192, each partial write adding to the offset what it
\* takes from the count; with the writer stopped the offset is what accept or
\* the last drain left in the field
C22_Offsets ==
    /\ [](conn.state = "ESTAB" /\ Live =>
            /\ ev.rw => /\ 0 <= conn.tx_offset
                        /\ conn.tx_offset + conn.tx_bytes = Len(conn.tx_buf)
                        /\ Len(conn.tx_buf) <= BUF_SIZE
            /\ ev.lw => /\ 0 <= conn.rx_offset
                        /\ conn.rx_offset + conn.rx_bytes = Len(conn.rx_buf)
                        /\ Len(conn.rx_buf) <= BUF_SIZE
            /\ ~ev.rw => conn.tx_offset \in Unset \/ conn.tx_offset \in 1..BUF_SIZE
            /\ ~ev.lw => conn.rx_offset \in Unset \/ conn.rx_offset \in 1..BUF_SIZE)
    /\ [][PartialWrites]_vars

\* a writer armed by a partial send of two bytes, with the offset at one
C22_Witness ==
    /\ conn.state = "ESTAB" /\ Live /\ ev.lw
    /\ conn.rx_offset = 1 /\ conn.rx_bytes = 1 /\ Len(conn.rx_buf) = 2

\* the reply that is in tx_buf tells the local peer of a failure
ErrorReply ==
    IF role = "server" THEN conn.tx_buf = StatusFrame(Zeros(REP_LEN))
    ELSE \/ conn.tx_buf = <<5, 255>>
         \/ Len(conn.tx_buf) = 10 /\ conn.tx_buf[1] = 5 /\ conn.tx_buf[2] # 0

\* a step into CLOSE_WAIT: from an error state, the error reply sent whole
EntersCloseWait ==
    conn'.state = "CLOSE_WAIT" /\ conn.state # "CLOSE_WAIT" =>
        /\ conn.state \in {"NEGO_ERR", "CMD_ERR", "REQ_ERR"}
        /\ ErrorReply
        /\ net'.to_local = Append(net.to_local, conn.tx_buf)

C24_AllClosed ==
    mem.block.conn = "freed" =>
        fds.sock.local # "open" /\ fds.sock.remote # "open"

\* C25: every socket descriptor owned by a CCB is closed at most once over the
\* life of that CCB: the accepted socket is closed at most once and close is
\* never called on a remote descriptor that is already closed, on every path
\* including the failed connect to the last candidate
C25_ClosedOnce ==
    /\ fds.closes.local <= 1
    /\ ~fds.stale

\* C26: cleanup is only ever called on a CCB whose four watchers have all been
\* initialised and whose remote socket has been opened, so none of its four
\* ev_io_stop acts on a watcher that was never set up
CallsCleanup ==
    hist'.end = "cleanup" /\ hist.end # "cleanup" =>
        /\ ev.inited = {"lr", "lw", "rr", "rw"}
        /\ fds.sock.remote = "open"
        /\ ~ev'.stopped_unset

C26_CleanupInited == [][CallsCleanup]_vars

\* C27: every callback runs only in a state it handles, so no state assertion
\* can fail: a watcher or timer that is armed, and whose callback the loop may
\* therefore run, belongs to a live CCB in one of that callback's states
HandledBy(cb) ==
    IF role = "client"
    THEN CASE cb = "local_read_cb" -> {"CLOSED", "NEGO_SENT", "ESTAB"}
           [] cb = "local_write_cb" -> {"NEGO_RCVD", "NEGO_ERR", "CMD_ERR",
                                        "REQ_ERR", "REP_RCVD", "ESTAB"}
           [] cb = "remote_read_cb" -> {"REQ_SENT", "ESTAB"}
           [] cb = "remote_write_cb" -> {"CONNECTED", "ESTAB"}
           [] cb = "connect_cb" -> {"CMD_RCVD"}
           [] OTHER -> {"CLOSE_WAIT"}
    ELSE CASE cb = "local_read_cb" -> {"CLOSED", "ESTAB"}
           [] cb = "local_write_cb" -> {"REQ_ERR", "CONNECTED", "ESTAB"}
           [] cb = "remote_read_cb" -> {"ESTAB"}
           [] cb = "remote_write_cb" -> {"ESTAB"}
           [] cb = "connect_cb" -> {"REQ_RCVD"}
           [] OTHER -> {"CLOSE_WAIT"}

Runnable ==
    {cb \in {"local_read_cb", "local_write_cb", "remote_read_cb",
             "remote_write_cb", "connect_cb", "closewait_cb"} :
        \/ cb = "local_read_cb" /\ ev.lr
        \/ cb = "local_write_cb" /\ ev.lw
        \/ cb = "remote_read_cb" /\ ev.rr
        \/ cb = ev.rw_cb /\ ev.rw
        \/ cb = "closewait_cb" /\ ev.timer}

C27_Handled ==
    role \in {"client", "server"} =>
        \A cb \in Runnable : Live /\ conn.state \in HandledBy(cb)

C27_Witness ==
    /\ role = "client" /\ Live /\ conn.state = "REQ_ERR"
    /\ Runnable = {"local_write_cb"} /\ hist.perr = "reply_magic"

\* C28: in ESTAB an armed write watcher always has a strictly positive number
\* of unsent bytes (w_remote_write armed: tx_bytes > 0, w_local_write armed:
\* rx_bytes > 0), so the asserts of the relay write handlers hold after every
\* full, partial, zero-length and would-block send
C28_WriterHasBytes ==
    conn.state = "ESTAB" /\ Live =>
        /\ ev.rw => ev.rw_cb = "remote_write_cb" /\ conn.tx_bytes > 0
        /\ ev.lw => conn.rx_bytes > 0

C28_Witness ==
    /\ role = "client" /\ conn.state = "ESTAB" /\ Live /\ ev.rw
    /\ conn.tx_bytes = 1 /\ conn.tx_offset = 1
    /\ Len(conn.tx_buf) = 2 /\ Len(net.tx_out) = 1

\* C29: for every 512-byte request with a valid magic that the server
\* accepts, the host and port strings copied into the resolution block fit
\* their fields: host length + 1 <= 264 and port length + 1 <= 8
C29_GaiFits ==
    role = "frame" /\ conn.rx_bytes = REQ_LEN /\ SubSeq(conn.rx_buf, 1, 4) = MAGIC =>
        /\ Len(dns.host) + 1 <= HOST_SIZE
        /\ Len(dns.port) + 1 <= PORT_SIZE

\* C30: in ESTAB, when the read of one direction returns an end of file or an
\* error and cleanup tears the CCB down, the buffer of the opposite direction
\* holds no bytes that were read from its source and not yet sent to its sink
ReadEndsRelay ==
    /\ conn.state = "ESTAB" /\ Live
    /\ hist'.end = "cleanup" /\ hist'.cause \in {"eof", "recv_err"}
    =>
    IF hist'.by = "local_read_cb"
    THEN ~ev.lw /\ Len(net.rx_out) = Len(net.rx_in)
    ELSE ~ev.rw /\ Len(net.tx_out) = Len(net.tx_in)

C30_NoPending == [][ReadEndsRelay]_vars

\* C31: between handlers, a live CCB that is not in ESTAB has exactly one
\* pending event source: one of its four I/O watchers armed, or its CLOSE_WAIT
\* timer running, or (server) its name resolution outstanding; never none and
\* never two
EventSources ==
    {w \in {"lr", "lw", "rr", "rw", "timer"} : ev[w]}
        \cup (IF role = "server" /\ dns.req = "pending" THEN {"dns"} ELSE {})

C31_OneSource ==
    role \in {"client", "server"} /\ Live /\ InLoop /\ conn.state # "ESTAB" =>
        Cardinality(EventSources) = 1

C31_Witness ==
    /\ role = "server" /\ Live /\ InLoop /\ conn.state = "CLOSED"
    /\ EventSources = {"dns"} /\ mem.block.gai = "live"

====
